---- MODULE Spec2Model ----
(***************************************************************************)
(* Model of the moderation core of filstream-curio-adapter:                *)
(*   pkg/moderation/bloom.go  - DenylistBloom (membership filter)          *)
(*   pkg/moderation/mock.go   - MockDenyList, MockModerationQueue,         *)
(*                              MockAuditLog                               *)
(*   pkg/moderation/moderation.go - types and configuration                *)
(* and of the proof grace of the scoring engine (policy engine).           *)
(*                                                                         *)
(* Fourteen specifications share the module:                               *)
(*   Spec      - reviewing: Submit, Review and the registry's Add/Remove;  *)
(*   SpecEsc   - escalation: the clock, Submit and Escalate under each     *)
(*               escalation configuration;                                 *)
(*   SpecLog   - the audit log: Append, Review, GetAll and a caller        *)
(*               writing into the slice GetAll returned;                   *)
(*   SpecBloom - filters built by NewDenylistBloom: Add, MayContain,       *)
(*               Merge, Serialize and Deserialize;                         *)
(*   SpecWire  - filters decoded from buffers Serialize did not produce;   *)
(*   SpecLock  - Merge run by two goroutines, one step per mutex call;     *)
(*   SpecDMCA  - the DMCA workflow: notice, counter-notice, court action   *)
(*               and restoration, on the registry and the log;             *)
(*   SpecFault - Submit and Review with a registry and a log whose calls   *)
(*               may return an error;                                      *)
(*   SpecList  - the registry's Add, Remove and List, and a caller holding *)
(*               the slice List returned;                                  *)
(*   SpecCast  - the registry, the queue and the broadcaster;              *)
(*   SpecProof - NewEngine and RecordProofResult of the scoring engine;    *)
(*   SpecSubmit - Submit run by concurrent goroutines, one step per        *)
(*               blocking point;                                           *)
(*   SpecConc  - every method of the queue, the registry and the log run   *)
(*               by two goroutines, one step per Lock and per critical     *)
(*               section;                                                  *)
(*   SpecMark  - the clock, Submit, Escalate and Review under each         *)
(*               escalation configuration.                                 *)
(*                                                                         *)
(* Representation choices forced by the 32-bit integers of TLC:            *)
(*   - a uint32 is a record [lo, hi] of two 16-bit halves, so that the     *)
(*     header fields of the wire format cover the whole uint32 range and   *)
(*     count++ wraps as in Go;                                             *)
(*   - a uint64 (the FNV hashes) is a sequence of 8 bytes, least           *)
(*     significant first, with schoolbook arithmetic modulo 2^64;          *)
(*   - a key (a Go string) is the sequence of its bytes.                   *)
(***************************************************************************)
EXTENDS Integers, Sequences, FiniteSets, TLC

(***************************************************************************)
(* Bounds of the model.                                                    *)
(***************************************************************************)
\* the keys are the first NumKeys entries of KeyList
NumKeys == 3
\* a filter accepts Add / Merge while its count is below MaxCount
\* (or within MaxCount of 2^32, see Bounded)
MaxCount == 2
\* bodies of hand-built wire buffers have 0..MaxBody bytes
MaxBody == 2
\* the clock ticks from 1 to MaxTime (the DMCA waiting period passes in one
\* step from there)
MaxTime == 2
\* at most MaxSubmits calls of Submit
MaxSubmits == 3
\* at most MaxRecords audit records
MaxRecords == 2
\* at most MaxCasts calls of each method of the broadcaster
MaxCasts == 1
\* a node fails at most MaxMisses proofs in a row
MaxMisses == 4
\* concurrent goroutines make at most MaxWrites calls of Submit, and of
\* Review and Append together
MaxWrites == 1

(***************************************************************************)
(* State: the filters, then the registry, the queue and the audit log.     *)
(***************************************************************************)
VARIABLES
    bloom,      \* bloom[f]: the filter held in variable f, or NilBloom
    added,      \* added[f]: keys whose Add returned on the filter in f, or on
                \* a filter merged or deserialized into it (history)
    wire,       \* a byte buffer received from elsewhere
    bret        \* what the last filter operation returned

VARIABLES
    mu,         \* mu[f]: the sync.RWMutex of the filter in f: the thread
                \* holding it for writing (0 for none) and those holding it
                \* for reading
    threads     \* threads[t]: where thread t stands in a Merge call, and the
                \* receiver and argument of that call

lockVars == << mu, threads >>

bloomVars == << bloom, added, wire, bret, lockVars >>

VARIABLES
    now,           \* the clock read by time.Now()
    entries,       \* MockDenyList.entries
    flags,         \* MockModerationQueue.flags
    escalated,     \* the keys of MockModerationQueue.escalated (all map to true)
    reviewed,      \* MockModerationQueue.reviewed
    contentFlags,  \* MockModerationQueue.contentFlags
    denyList,      \* MockModerationQueue.denyList: TRUE when a registry is held
    auditLog,      \* MockModerationQueue.auditLog: TRUE when a log is held
    escConfig,     \* MockModerationQueue.escConfig
    records,       \* MockAuditLog.records
    gotAll,        \* the slice a caller holds from an earlier GetAll
    appended,      \* every record passed to Append, in call order (history)
    submitLog,     \* one entry per Submit call, in call order (history)
    doneReviews,   \* the identifiers a Review call succeeded for (history)
    lastMut,       \* per content identifier, "Add" or "Remove": the last
                   \* successful mutation of its registry entry (history)
    dmca,          \* the DMCA notices and counter-notices received, by
                   \* notice identifier, and the notices with a court action
    reviewRet,     \* the last Review call: the error it returned and the
                   \* errors its registry and log calls returned (history)
    gotList,       \* the slice a caller holds from an earlier List: its
                   \* contents when List returned, and whether it shares
                   \* storage with m.entries
    casts,         \* MockSyncBroadcaster: Broadcasts and SyncedPeers, and the
                   \* value lastMut had at the last call of either (history)
    engine,        \* policy.Engine: config and nodes, and per node the
                   \* failed proofs recorded since its last passed proof
                   \* (history)
    submitters,    \* goroutines inside Submit: the holder of
                   \* MockModerationQueue.mu (0 when free) and, per
                   \* goroutine, its position and its local variables
    calls          \* goroutines calling the queue, the registry and the
                   \* log: the three mutexes (writer, or 0, and readers)
                   \* and, per goroutine, its position, its call and what
                   \* its last call returned if that was IsDenied or
                   \* GetByFlag (with the result of an IsDenied right
                   \* before it)

modVars == << now, entries, flags, escalated, reviewed, contentFlags, denyList,
              auditLog, escConfig, records, gotAll, appended, submitLog,
              doneReviews, lastMut, dmca, reviewRet, gotList, casts, engine,
              submitters, calls >>

vars == << bloomVars, modVars >>

(***************************************************************************)
(* Bytes and bit operations on bytes.                                      *)
(***************************************************************************)
Byte == 0..255

Pow2(j) == 2^j

BitAt(x, j) == (x \div Pow2(j)) % 2

\* x = 1 << j: the byte is assigned, its other bits are lost
SetBitAssign(x, j) == Pow2(j)

\* x | (1 << j)
SetBit(x, j) == IF BitAt(x, j) = 1 THEN x ELSE x + Pow2(j)

\* x & (1 << j) == 0
BitClear(x, j) == BitAt(x, j) = 0

RECURSIVE OrBits(_, _, _)
OrBits(x, y, j) ==
    IF j > 7 THEN 0
    ELSE (IF BitAt(x, j) = 1 \/ BitAt(y, j) = 1 THEN Pow2(j) ELSE 0)
         + OrBits(x, y, j + 1)

\* x + y in place of x | y on bytes
ByteOrCarry(x, y) == (x + y) % 256

\* x | y on bytes
ByteOr(x, y) == OrBits(x, y, 0)

RECURSIVE XorBits(_, _, _)
XorBits(x, y, j) ==
    IF j > 7 THEN 0
    ELSE (IF BitAt(x, j) # BitAt(y, j) THEN Pow2(j) ELSE 0)
         + XorBits(x, y, j + 1)

\* x ^ y on bytes
ByteXor(x, y) == XorBits(x, y, 0)

(***************************************************************************)
(* uint32 as two 16-bit halves.                                            *)
(***************************************************************************)
Half == 2 ^ 16

\* the uint32 of a small natural number
U32(n) == [lo |-> n % Half, hi |-> n \div Half]

\* the value of a uint32 below 2^31
U32Int(u) == u.hi * Half + u.lo

U32Zero == U32(0)

\* a + b modulo 2^32
U32Add(a, b) ==
    LET s == a.lo + b.lo
    IN  [lo |-> s % Half, hi |-> (a.hi + b.hi + s \div Half) % Half]

\* u / 8 (at most 2^29 - 1)
U32Div8(u) == u.hi * (Half \div 8) + u.lo \div 8

\* binary.LittleEndian.PutUint32
PutUint32(u) == << u.lo % 256, u.lo \div 256, u.hi % 256, u.hi \div 256 >>

\* binary.LittleEndian.Uint32 of the 4 bytes data[from+1 .. from+4] (1-based)
Uint32(data, from) ==
    [lo |-> data[from + 1] + 256 * data[from + 2],
     hi |-> data[from + 3] + 256 * data[from + 4]]

(***************************************************************************)
(* uint64 as 8 bytes, least significant first.                             *)
(***************************************************************************)
RECURSIVE SumProd(_, _, _, _)
\* sum of x[i] * y[k + 1 - i] for i in 1..n
SumProd(x, y, k, n) ==
    IF n = 0 THEN 0 ELSE x[n] * y[k + 1 - n] + SumProd(x, y, k, n - 1)

RECURSIVE MulFrom(_, _, _, _)
MulFrom(x, y, k, carry) ==
    IF k > 8 THEN << >>
    ELSE LET s == carry + SumProd(x, y, k, k)
         IN  << s % 256 >> \o MulFrom(x, y, k + 1, s \div 256)

\* x * y modulo 2^64
Mul64(x, y) == MulFrom(x, y, 1, 0)

RECURSIVE AddFrom(_, _, _, _)
AddFrom(x, y, k, carry) ==
    IF k > 8 THEN << >>
    ELSE LET s == carry + x[k] + y[k]
         IN  << s % 256 >> \o AddFrom(x, y, k + 1, s \div 256)

\* x + y modulo 2^64
Add64(x, y) == AddFrom(x, y, 1, 0)

\* uint64(i) for a small natural number i
U64(i) == [j \in 1..8 |-> IF j <= 4 THEN (i \div 256 ^ (j - 1)) % 256 ELSE 0]

RECURSIVE ModFrom(_, _, _, _)
ModFrom(x, m, k, r) ==
    IF k = 0 THEN r ELSE ModFrom(x, m, k - 1, (r * 256 + x[k]) % m)

\* x % m for 0 < m < 2^23
Mod64(x, m) == ModFrom(x, m, 8, 0)

(***************************************************************************)
(* hash/fnv: 64-bit FNV-1 (fnv.New64) and FNV-1a (fnv.New64a).             *)
(***************************************************************************)
\* offset basis 14695981039346656037 = 0xcbf29ce484222325
FnvOffset64 == << 37, 35, 34, 132, 228, 156, 242, 203 >>

\* prime 1099511628211 = 0x00000100000001b3
FnvPrime64 == << 179, 1, 0, 0, 0, 1, 0, 0 >>

XorLow(h, c) == [h EXCEPT ![1] = ByteXor(h[1], c)]

RECURSIVE Fnv1From(_, _, _)
Fnv1From(key, i, h) ==
    IF i > Len(key) THEN h
    ELSE Fnv1From(key, i + 1, XorLow(Mul64(h, FnvPrime64), key[i]))

\* fnv.New64(): hash *= prime; hash ^= byte
Fnv1(key) == Fnv1From(key, 1, FnvOffset64)

RECURSIVE Fnv1aFrom(_, _, _)
Fnv1aFrom(key, i, h) ==
    IF i > Len(key) THEN h
    ELSE Fnv1aFrom(key, i + 1, Mul64(XorLow(h, key[i]), FnvPrime64))

\* fnv.New64a(): hash ^= byte; hash *= prime
Fnv1a(key) == Fnv1aFrom(key, 1, FnvOffset64)

(***************************************************************************)
(* DenylistBloom (bloom.go).  A filter is a record                         *)
(*   [bits : sequence of bytes, numHash, numBits, count : uint32].         *)
(***************************************************************************)
\* a nil *DenylistBloom
NilBloom == [nil |-> TRUE]

ErrNil == "nil"
ErrInvalidBloomData == "invalid bloom filter data"
ErrBloomDimensionMismatch == "bloom filter dimension mismatch"
\* the two run-time panics the filter code can raise
PanicDivide == "panic: integer divide by zero"
PanicIndex == "panic: index out of range"

\* Fixed-point stand-ins for the float64 arithmetic of NewDenylistBloom:
\* rates are given in 1/1000, logarithms in 1/LnScale.  For every input in
\* BloomConfigs the result equals the float64 result of the Go code.
LnScale == 10 ^ 4
\* math.Ln2
Ln2Fx == 6931
\* math.Ln2 * math.Ln2
Ln2SqFx == 4805
\* -math.Log(fpRate) for the rates 0.01, 0.1, 0.5
NegLnFx(rate) ==
    CASE rate = 10 -> 46052
      [] rate = 100 -> 23026
      [] rate = 500 -> 6931

DefaultItems == 1000
\* 0.01
DefaultRate == 10

CeilDiv(a, b) == (a + b - 1) \div b

NewDenylistBloom(estimatedItems, fpRate) ==
    LET n  == IF estimatedItems = 0 THEN DefaultItems ELSE estimatedItems
        r  == IF fpRate <= 0 \/ fpRate >= 1000 THEN DefaultRate ELSE fpRate
        m0 == CeilDiv(n * NegLnFx(r), Ln2SqFx)
        m  == ((m0 + 7) \div 8) * 8
        k0 == CeilDiv(m * Ln2Fx, n * LnScale)
        k  == IF k0 = 0 THEN 1 ELSE k0
    IN  [bits    |-> [i \in 1..(m \div 8) |-> 0],
         numHash |-> U32(k),
         numBits |-> U32(m),
         count   |-> U32Zero]

\* content hashes as byte strings: "a", "b", "", "ab", "ba", "bb"
Keys ==
    LET KeyList == << <<97>>, <<98>>, << >>, <<97, 98>>, <<98, 97>>, <<98, 98>> >>
    IN  {KeyList[i] : i \in 1..NumKeys}

\* The body of hashIndices for numBits = m and numHash = k: the k positions
\* (a + i*b) % m, or the divide panic of "% 0".  The loop body is not
\* entered when k = 0.
HashPositions(key, m, k) ==
    LET a  == Fnv1(key)
        bb == Fnv1a(key)
    IN  IF k > 0 /\ m = 0
        THEN [panic |-> TRUE, indices |-> << >>]
        ELSE [panic |-> FALSE,
              indices |-> [i \in 1..k |->
                              Mod64(Add64(a, Mul64(U64(i - 1), bb)), m)]]

\* the (estimatedItems, fpRate in 1/1000) pairs filters are constructed
\* with: m = 8, k = 6; m = 8, k = 2; m = 16, k = 2
BloomConfigs == {<<1, 500>>, <<3, 500>>, <<10, 500>>}

U32Max == [lo |-> Half - 1, hi |-> Half - 1]

\* Headers << numBits, numHash, count >> of hand-built buffers: no bits at
\* all, fewer than 8 bits, bit counts that are and are not multiples of 8, no
\* hash function, a count about to wrap, a bit count no buffer can hold.
WireHeaders ==
    {<< U32(0), U32(0), U32(0) >>,
     << U32(0), U32(2), U32(0) >>,
     << U32(4), U32(2), U32(0) >>,
     << U32(8), U32(0), U32(0) >>,
     << U32(8), U32(2), U32(0) >>,
     << U32(8), U32(2), U32Max >>,
     << U32(12), U32(2), U32(0) >>,
     << U32(16), U32(2), U32(0) >>,
     << U32Max, U32(2), U32(0) >>}

RECURSIVE Tabulate(_)
\* the explicit table of HashPositions over a set of << key, m, k >>
Tabulate(S) ==
    IF S = {} THEN << >>
    ELSE LET e == CHOOSE e \in S : TRUE
         IN  (e :> HashPositions(e[1], e[2], e[3])) @@ Tabulate(S \ {e})

\* HashPositions of every key and dimension, computed once.  FilterDims is
\* every (numBits, numHash) a filter of the model can have: those of the
\* constructed filters and those of the headers whose body fits a buffer
HashPositionsOf ==
    LET FilterDims ==
            {<< U32Int(NewDenylistBloom(c[1], c[2]).numBits),
                U32Int(NewDenylistBloom(c[1], c[2]).numHash) >> : c \in BloomConfigs}
            \cup {<< U32Int(h[1]), U32Int(h[2]) >> :
                     h \in {w \in WireHeaders : w[1] # U32Max}}
    IN  Tabulate({<< key, d[1], d[2] >> : key \in Keys, d \in FilterDims})

hashIndices(b, key) ==
    HashPositionsOf[<< key, U32Int(b.numBits), U32Int(b.numHash) >>]

RECURSIVE SetBits(_, _, _)
\* the loop of Add: b.bits[idx/8] |= 1 << (idx%8), stopping at an index
\* outside the bit array
SetBits(bits, indices, i) ==
    IF i > Len(indices) THEN [bits |-> bits, panic |-> FALSE]
    ELSE LET idx == indices[i]
         IN  IF idx \div 8 + 1 > Len(bits)
             THEN [bits |-> bits, panic |-> TRUE]
             ELSE SetBits([bits EXCEPT ![idx \div 8 + 1] = SetBit(@, idx % 8)],
                          indices, i + 1)

\* Add counting a key only when it sets a bit
AddOnce(b, key) ==
    LET h == hashIndices(b, key)
    IN  IF h.panic THEN [filter |-> b, err |-> PanicDivide]
        ELSE LET r == SetBits(b.bits, h.indices, 1)
             IN  IF r.panic
                 THEN [filter |-> [b EXCEPT !.bits = r.bits], err |-> PanicIndex]
                 ELSE [filter |-> [b EXCEPT !.bits = r.bits,
                                            !.count = IF r.bits = b.bits THEN @
                                                      ELSE U32Add(@, U32(1))],
                       err |-> ErrNil]

\* Add: the filter afterwards and how the call ended
Add(b, key) ==
    LET h == hashIndices(b, key)
    IN  IF h.panic THEN [filter |-> b, err |-> PanicDivide]
        ELSE LET r == SetBits(b.bits, h.indices, 1)
             IN  IF r.panic
                 THEN [filter |-> [b EXCEPT !.bits = r.bits], err |-> PanicIndex]
                 ELSE [filter |-> [b EXCEPT !.bits = r.bits,
                                            !.count = U32Add(@, U32(1))],
                       err |-> ErrNil]

RECURSIVE TestBits(_, _, _)
\* the loop of MayContain
TestBits(bits, indices, i) ==
    IF i > Len(indices) THEN [val |-> TRUE, err |-> ErrNil]
    ELSE LET idx == indices[i]
         IN  IF idx \div 8 + 1 > Len(bits)
             THEN [val |-> FALSE, err |-> PanicIndex]
             ELSE IF BitClear(bits[idx \div 8 + 1], idx % 8)
                  THEN [val |-> FALSE, err |-> ErrNil]
                  ELSE TestBits(bits, indices, i + 1)

MayContain(b, key) ==
    LET h == hashIndices(b, key)
    IN  IF h.panic THEN [val |-> FALSE, err |-> PanicDivide]
        ELSE TestBits(b.bits, h.indices, 1)

Count(b) == b.count

\* Serialize writing each header field most significant byte first
SerializeBigEndian(b) ==
    LET be(u) == << u.hi \div 256, u.hi % 256, u.lo \div 256, u.lo % 256 >>
    IN  be(b.numBits) \o be(b.numHash) \o be(b.count) \o b.bits

\* Serialize with the first two header fields in the wrong order
SerializeSwapped(b) ==
    PutUint32(b.numHash) \o PutUint32(b.numBits) \o PutUint32(b.count) \o b.bits

Serialize(b) ==
    PutUint32(b.numBits) \o PutUint32(b.numHash) \o PutUint32(b.count) \o b.bits

\* Deserialize accepting a buffer longer than its header declares
DeserializeLax(data) ==
    IF Len(data) < 12 THEN [filter |-> NilBloom, err |-> ErrInvalidBloomData]
    ELSE LET numBits == Uint32(data, 0)
             numHash == Uint32(data, 4)
             count   == Uint32(data, 8)
             expectedLen == 12 + U32Div8(numBits)
         IN  IF Len(data) < expectedLen
             THEN [filter |-> NilBloom, err |-> ErrInvalidBloomData]
             ELSE [filter |-> [bits    |-> SubSeq(data, 13, Len(data)),
                               numHash |-> numHash,
                               numBits |-> numBits,
                               count   |-> count],
                   err |-> ErrNil]

Deserialize(data) ==
    IF Len(data) < 12 THEN [filter |-> NilBloom, err |-> ErrInvalidBloomData]
    ELSE LET numBits == Uint32(data, 0)
             numHash == Uint32(data, 4)
             count   == Uint32(data, 8)
             expectedLen == 12 + U32Div8(numBits)
         IN  IF Len(data) # expectedLen
             THEN [filter |-> NilBloom, err |-> ErrInvalidBloomData]
             ELSE [filter |-> [bits    |-> SubSeq(data, 13, Len(data)),
                               numHash |-> numHash,
                               numBits |-> numBits,
                               count   |-> count],
                   err |-> ErrNil]

\* Merge adding the other filter's count before it compares dimensions
MergeCountsFirst(b, other) ==
    IF other = NilBloom THEN [filter |-> b, err |-> ErrNil]
    ELSE LET c == [b EXCEPT !.count = U32Add(@, other.count)]
         IN  IF b.numBits # other.numBits \/ b.numHash # other.numHash
             THEN [filter |-> c, err |-> ErrBloomDimensionMismatch]
             ELSE [filter |-> [c EXCEPT
                                 !.bits = [i \in 1..Len(b.bits) |->
                                              ByteOr(b.bits[i], other.bits[i])]],
                   err |-> ErrNil]

\* Merge copying the other filter's bits instead of OR-ing them in
MergeOverwrite(b, other) ==
    IF other = NilBloom THEN [filter |-> b, err |-> ErrNil]
    ELSE IF b.numBits # other.numBits \/ b.numHash # other.numHash
         THEN [filter |-> b, err |-> ErrBloomDimensionMismatch]
         ELSE [filter |-> [b EXCEPT !.bits = other.bits,
                                    !.count = U32Add(@, other.count)],
               err |-> ErrNil]

\* Merge(other) on receiver b, for two distinct filters
Merge(b, other) ==
    IF other = NilBloom THEN [filter |-> b, err |-> ErrNil]
    ELSE IF b.numBits # other.numBits \/ b.numHash # other.numHash
         THEN [filter |-> b, err |-> ErrBloomDimensionMismatch]
         ELSE [filter |-> [b EXCEPT
                             !.bits = [i \in 1..Len(b.bits) |->
                                          ByteOr(b.bits[i], other.bits[i])],
                             !.count = U32Add(@, other.count)],
               err |-> ErrNil]

SizeBytes(b) == 12 + Len(b.bits)

(***************************************************************************)
(* The filters as a state machine.                                         *)
(***************************************************************************)
FilterIds == {1, 2}

\* Buffers that did not come from Serialize: every header of WireHeaders
\* followed by 0..MaxBody zero bytes (RawBuffer), and its prefixes of 0, 3
\* and 11 bytes.
WireInputs ==
    LET RawBuffer(h, n) ==
            PutUint32(h[1]) \o PutUint32(h[2]) \o PutUint32(h[3])
               \o [i \in 1..n |-> 0]
    IN  UNION {{SubSeq(RawBuffer(h, n), 1, len) : len \in {0, 3, 11, 12 + n}} :
                  h \in WireHeaders, n \in 0..MaxBody}

\* the model grows a filter while its count is at most MaxCount, or within
\* MaxCount of wrapping around (such counts come from hand-built headers)
Bounded(u) ==
    \/ u.hi = 0 /\ u.lo <= MaxCount
    \/ u.hi = Half - 1 /\ u.lo >= Half - 1 - MaxCount

Ret(op, err, val) == [op |-> op, err |-> err, val |-> val]

\* the goroutines that call Merge concurrently
Threads == {1, 2}

\* no mutex is held and no thread is inside a call
LocksFree ==
    /\ mu = [f \in FilterIds |-> [w |-> 0, r |-> {}]]
    /\ threads = [t \in Threads |-> [pc |-> "idle", recv |-> 0, arg |-> 0]]

BloomAdd(f, key) ==
    /\ bloom[f] # NilBloom
    /\ LET r == Add(bloom[f], key)
       IN  /\ Bounded(r.filter.count)
           /\ bloom' = [bloom EXCEPT ![f] = r.filter]
           /\ added' = [added EXCEPT ![f] =
                           IF r.err = ErrNil THEN @ \cup {key} ELSE @]
           /\ bret' = Ret("Add", r.err, FALSE)
    /\ UNCHANGED << wire, lockVars >>
    /\ UNCHANGED modVars

BloomMayContain(f, key) ==
    /\ bloom[f] # NilBloom
    /\ LET r == MayContain(bloom[f], key)
       IN  bret' = Ret("MayContain", r.err, r.val)
    /\ UNCHANGED << bloom, added, wire, lockVars >>
    /\ UNCHANGED modVars

\* a.Merge(a) never returns (b.mu.Lock() is followed by other.mu.RLock() on
\* the same mutex), so the sequential specification merges distinct filters
BloomMerge(f, g) ==
    /\ f # g
    /\ bloom[f] # NilBloom
    /\ LET r == Merge(bloom[f], bloom[g])
       IN  /\ Bounded(r.filter.count)
           /\ bloom' = [bloom EXCEPT ![f] = r.filter]
           /\ added' = [added EXCEPT ![f] =
                           IF r.err = ErrNil /\ bloom[g] # NilBloom
                           THEN @ \cup added[g] ELSE @]
           /\ bret' = Ret(IF bloom[g] = NilBloom THEN "Merge(nil)" ELSE "Merge",
                          r.err, FALSE)
    /\ UNCHANGED << wire, lockVars >>
    /\ UNCHANGED modVars

\* g, err := Deserialize(f.Serialize())
BloomTransfer(f, g) ==
    /\ bloom[f] # NilBloom
    /\ LET r == Deserialize(Serialize(bloom[f]))
       IN  /\ bloom' = [bloom EXCEPT ![g] = r.filter]
           /\ added' = [added EXCEPT ![g] =
                           IF r.err = ErrNil THEN added[f] ELSE {}]
           /\ bret' = Ret("Transfer", r.err, FALSE)
    /\ UNCHANGED << wire, lockVars >>
    /\ UNCHANGED modVars

\* f, err := Deserialize(wire)
BloomDeserialize(f) ==
    /\ LET r == Deserialize(wire)
       IN  /\ bloom' = [bloom EXCEPT ![f] = r.filter]
           /\ added' = [added EXCEPT ![f] = {}]
           /\ bret' = Ret("Deserialize", r.err, FALSE)
    /\ UNCHANGED << wire, lockVars >>
    /\ UNCHANGED modVars

(***************************************************************************)
(* Merge run by concurrent threads, one step per blocking point: the call  *)
(* with its nil test, b.mu.Lock(), other.mu.RLock(), and the rest of the   *)
(* body with the deferred unlocks.  Merge is the only method that holds    *)
(* two mutexes at once.                                                    *)
(***************************************************************************)
\* thread t calls bloom[f].Merge(bloom[g]); a nil argument returns at once
MergeCall(t, f, g) ==
    /\ threads[t].pc = "idle"
    /\ bloom[f] # NilBloom
    /\ IF bloom[g] = NilBloom
       THEN /\ bret' = Ret("Merge(nil)", ErrNil, FALSE)
            /\ UNCHANGED threads
       ELSE /\ Bounded(U32Add(bloom[f].count, bloom[g].count))
            /\ threads' = [threads EXCEPT ![t] =
                              [pc |-> "Lock", recv |-> f, arg |-> g]]
            /\ UNCHANGED bret
    /\ UNCHANGED << bloom, added, wire, mu >>
    /\ UNCHANGED modVars

\* b.mu.Lock() returns once nobody holds the mutex
MergeLock(t) ==
    /\ threads[t].pc = "Lock"
    /\ LET f == threads[t].recv
       IN  /\ mu[f] = [w |-> 0, r |-> {}]
           /\ mu' = [mu EXCEPT ![f].w = t]
    /\ threads' = [threads EXCEPT ![t].pc = "RLock"]
    /\ UNCHANGED << bloom, added, wire, bret >>
    /\ UNCHANGED modVars

\* other.mu.RLock() returns once no writer holds the mutex
MergeRLock(t) ==
    /\ threads[t].pc = "RLock"
    /\ LET g == threads[t].arg
       IN  /\ mu[g].w = 0
           /\ mu' = [mu EXCEPT ![g].r = @ \cup {t}]
    /\ threads' = [threads EXCEPT ![t].pc = "locked"]
    /\ UNCHANGED << bloom, added, wire, bret >>
    /\ UNCHANGED modVars

\* the dimension test, the OR loop and the count, then the deferred
\* other.mu.RUnlock() and b.mu.Unlock()
MergeFinish(t) ==
    /\ threads[t].pc = "locked"
    /\ LET f == threads[t].recv
           g == threads[t].arg
           r == Merge(bloom[f], bloom[g])
       IN  /\ bloom' = [bloom EXCEPT ![f] = r.filter]
           /\ added' = [added EXCEPT ![f] =
                           IF r.err = ErrNil THEN @ \cup added[g] ELSE @]
           /\ bret' = Ret("Merge", r.err, FALSE)
           /\ mu' = [mu EXCEPT ![g].r = @ \ {t}, ![f].w = 0]
    /\ threads' = [threads EXCEPT ![t] = [pc |-> "idle", recv |-> 0, arg |-> 0]]
    /\ UNCHANGED wire
    /\ UNCHANGED modVars

(***************************************************************************)
(* Registry, queue and audit log (mock.go, moderation.go).                 *)
(* A Go map is a function on the set of its keys; time is a count of       *)
(* clock ticks and 0 is the zero time.Time.                                *)
(***************************************************************************)
CategoryCopyright == "copyright"
CategoryIllegal == "illegal"
CategoryAbuse == "abuse"

ActionApprove == "approve"
ActionDeny == "deny"
ActionDismiss == "dismiss"

ReviewActions == {ActionApprove, ActionDeny, ActionDismiss}

\* the not-found errors of Remove, Review and Escalate (fmt.Errorf)
ErrNotInDenylist == "content not in denylist"
ErrFlagNotFound == "flag not found"

EmptyMap == [k \in {} |-> 0]

MapPut(m, k, v) == [j \in DOMAIN m \cup {k} |-> IF j = k THEN v ELSE m[j]]

MapDelete(m, k) == [j \in DOMAIN m \ {k} |-> m[j]]

ContentIDs == {"c1", "c2"}

\* Add storing the reason as the denying actor
DenyListAddSwapped(e, contentID, reason, t) ==
    MapPut(e, contentID, [ContentID |-> contentID,
                          Reason    |-> "system",
                          DeniedAt  |-> t,
                          DeniedBy  |-> reason])

\* Add returning without storing the entry
DenyListAddDropped(e, contentID, reason, t) == e

\* MockDenyList.Add: the entries map afterwards
DenyListAdd(e, contentID, reason, t) ==
    MapPut(e, contentID, [ContentID |-> contentID,
                          Reason    |-> reason,
                          DeniedAt  |-> t,
                          DeniedBy  |-> "system"])

\* Remove emptying the registry
DenyListRemoveAll(e, contentID) ==
    IF contentID \notin DOMAIN e
    THEN [entries |-> e, err |-> ErrNotInDenylist]
    ELSE [entries |-> EmptyMap, err |-> ErrNil]

\* Remove reporting success without deleting the entry
DenyListRemoveKeeps(e, contentID) ==
    IF contentID \notin DOMAIN e
    THEN [entries |-> e, err |-> ErrNotInDenylist]
    ELSE [entries |-> e, err |-> ErrNil]

\* MockDenyList.Remove: the entries map afterwards and the error
DenyListRemove(e, contentID) ==
    IF contentID \notin DOMAIN e
    THEN [entries |-> e, err |-> ErrNotInDenylist]
    ELSE [entries |-> MapDelete(e, contentID), err |-> ErrNil]

\* MockDenyList.IsDenied
IsDenied(contentID) == contentID \in DOMAIN entries

\* MockDenyList.List, as the set of the entries returned (map order is free)
List == {entries[c] : c \in DOMAIN entries}

\* List handing out a view of m.entries
ListSnapshotLive == [data |-> List, live |-> TRUE]

\* the slice List returns: a new slice filled with copies of the entries,
\* sharing nothing with m.entries
ListSnapshot == [data |-> List, live |-> FALSE]

\* what the caller reads from the slice it holds
HeldList == IF gotList.live THEN List ELSE gotList.data

\* fmt.Sprintf("%d", n)
Digits == << "0", "1", "2", "3", "4", "5", "6", "7", "8", "9" >>

RECURSIVE Itoa(_)
Itoa(n) == IF n < 10 THEN Digits[n + 1]
           ELSE Itoa(n \div 10) \o Digits[(n % 10) + 1]

\* fmt.Sprintf("flag-%d", len(m.flags)+1)
NextFlagID(fl) == "flag-" \o Itoa(Cardinality(DOMAIN fl) + 1)

RECURSIVE Recent(_, _)
\* the prune loop of Submit: the times after cutoff, in order
Recent(times, cutoff) ==
    IF times = << >> THEN << >>
    ELSE (IF Head(times) > cutoff THEN << Head(times) >> ELSE << >>)
         \o Recent(Tail(times), cutoff)

\* m.contentFlags[contentID] (nil when absent)
TimesOf(cf, contentID) == IF contentID \in DOMAIN cf THEN cf[contentID] ELSE << >>

\* the flag as stored by Submit: identifier and timestamp filled in if absent
StoredFlag(flag, fl, t) ==
    [flag EXCEPT !.ID = IF @ = "" THEN NextFlagID(fl) ELSE @,
                 !.Timestamp = IF @ = 0 THEN t ELSE @]

\* the window computed from the flag's own Timestamp field when it has one
WindowAfterStamp(cf, flag, cfg, t) ==
    LET at == IF flag.Timestamp = 0 THEN t ELSE flag.Timestamp
    IN  Recent(TimesOf(cf, flag.ContentID), at - cfg.Window) \o << at >>

\* the window of Submit for flag at time t (now), after prune and append
WindowAfter(cf, flag, cfg, t) ==
    Recent(TimesOf(cf, flag.ContentID), t - cfg.Window) \o << t >>

\* every review outcome but dismiss reaching the registry
AddsUnlessDismissed(action, dl) == action # ActionDismiss /\ dl

\* action == ActionDeny && m.denyList != nil
AddsToDenylist(action, dl) == action = ActionDeny /\ dl

\* the threshold test with > in the place of >=
CrossesLate(recent, cfg) == Len(recent) > cfg.FlagThreshold

\* len(recent) >= m.escConfig.FlagThreshold
Crosses(recent, cfg) == Len(recent) >= cfg.FlagThreshold

\* the record of Review with the evidence in the place of the category
ReviewRecordEvidence(flagID, flag, action, reviewedBy, t) ==
    [ID        |-> "audit-" \o flagID,
     FlagID    |-> flagID,
     ContentID |-> flag.ContentID,
     Action    |-> action,
     ActionBy  |-> reviewedBy,
     Reason    |-> flag.Evidence,
     Timestamp |-> t]

\* the AuditRecord built by Review
ReviewRecord(flagID, flag, action, reviewedBy, t) ==
    [ID        |-> "audit-" \o flagID,
     FlagID    |-> flagID,
     ContentID |-> flag.ContentID,
     Action    |-> action,
     ActionBy  |-> reviewedBy,
     Reason    |-> flag.Category,
     Timestamp |-> t]

\* MockAuditLog.Append: the records afterwards
AuditAppend(rs, record) == Append(rs, record)

\* GetAll returning m.records itself
GetAllAliased == [data |-> records, shared |-> TRUE]

\* MockAuditLog.GetAll: the slice returned, a copy that shares nothing with
\* m.records
GetAll == [data |-> records, shared |-> FALSE]

RECURSIVE FilterRecordsReversed(_, _, _)
\* the matching records, newest first
FilterRecordsReversed(rs, field, v) ==
    IF rs = << >> THEN << >>
    ELSE FilterRecordsReversed(Tail(rs), field, v)
         \o (IF Head(rs)[field] = v THEN << Head(rs) >> ELSE << >>)

RECURSIVE FilterRecords(_, _, _)
\* the loop of GetByContent and GetByFlag: the records whose field equals v,
\* in the order of m.records
FilterRecords(rs, field, v) ==
    IF rs = << >> THEN << >>
    ELSE (IF Head(rs)[field] = v THEN << Head(rs) >> ELSE << >>)
         \o FilterRecords(Tail(rs), field, v)

\* MockAuditLog.GetByContent
GetByContent(contentID) == FilterRecords(records, "ContentID", contentID)

\* MockAuditLog.GetByFlag
GetByFlag(flagID) == FilterRecords(records, "FlagID", flagID)

\* GetPending leaving out only the flags that were denied
GetPendingUndenied ==
    {flags[id] : id \in {j \in DOMAIN flags :
                            j \notin DOMAIN reviewed \/ reviewed[j] # ActionDeny}}

\* MockModerationQueue.GetPending, as the set of the flags returned
GetPending == {flags[id] : id \in {j \in DOMAIN flags : j \notin DOMAIN reviewed}}

\* MockModerationQueue.IsEscalated
IsEscalated(flagID) == flagID \in escalated

BloomNext ==
    \/ \E f \in FilterIds, key \in Keys : BloomAdd(f, key)
    \/ \E f \in FilterIds, key \in Keys : BloomMayContain(f, key)
    \/ \E f \in FilterIds, g \in FilterIds : BloomMerge(f, g)
    \/ \E f \in FilterIds, g \in FilterIds : BloomTransfer(f, g)
    \/ \E f \in FilterIds : BloomDeserialize(f)

(***************************************************************************)
(* The proof grace of the scoring engine (policy engine).  Of Config only  *)
(* ProofGraceMisses is kept, of nodeState the three fields                 *)
(* RecordProofResult writes.                                               *)
(***************************************************************************)
NodeIDs == {"node-1", "node-2"}

DefaultConfig == [ProofGraceMisses |-> 2]

NewEngine(cfg) ==
    [config |-> cfg, nodes |-> EmptyMap, streak |-> [n \in NodeIDs |-> 0]]

\* the penalty starts at the last tolerated miss
ProofResultAtGrace(cfg, ns, passed, t) ==
    IF passed
    THEN [missedProofs |-> 0, halfOpen |-> FALSE, lastProof |-> t]
    ELSE [missedProofs |-> ns.missedProofs + 1,
          halfOpen |-> ns.halfOpen \/ ns.missedProofs + 1 >= cfg.ProofGraceMisses,
          lastProof |-> t]

\* the node state RecordProofResult leaves
ProofResult(cfg, ns, passed, t) ==
    IF passed
    THEN [missedProofs |-> 0, halfOpen |-> FALSE, lastProof |-> t]
    ELSE [missedProofs |-> ns.missedProofs + 1,
          halfOpen |-> ns.halfOpen \/ ns.missedProofs + 1 > cfg.ProofGraceMisses,
          lastProof |-> t]

\* policy.NewEngine(cfg): a fresh engine replaces the one in use
EngineNew(cfg) ==
    /\ engine' = NewEngine(cfg)
    /\ UNCHANGED << now, entries, flags, escalated, reviewed, contentFlags,
                    denyList, auditLog, escConfig, records, gotAll, appended,
                    submitLog, doneReviews, lastMut >>
    /\ UNCHANGED << dmca, reviewRet, gotList, casts, submitters, calls,
                    bloomVars >>

\* Engine.RecordProofResult; getOrCreate stores a zero nodeState for a node
\* the engine has not seen
RecordProofResult(nodeID, passed) ==
    /\ passed \/ engine.streak[nodeID] < MaxMisses
    /\ LET ns == IF nodeID \in DOMAIN engine.nodes
                 THEN engine.nodes[nodeID]
                 ELSE [missedProofs |-> 0, halfOpen |-> FALSE, lastProof |-> 0]
       IN engine' = [engine EXCEPT
              !.nodes = MapPut(engine.nodes, nodeID,
                               ProofResult(engine.config, ns, passed, now)),
              !.streak[nodeID] = IF passed THEN 0 ELSE @ + 1]
    /\ UNCHANGED << now, entries, flags, escalated, reviewed, contentFlags,
                    denyList, auditLog, escConfig, records, gotAll, appended,
                    submitLog, doneReviews, lastMut >>
    /\ UNCHANGED << dmca, reviewRet, gotList, casts, submitters, calls,
                    bloomVars >>

(***************************************************************************)
(* The queue, the registry and the log as a state machine.  Every call is  *)
(* one step: each method holds its mutex from entry to return.             *)
(***************************************************************************)
\* DefaultEscalationConfig: 3 flags in 1 hour, an hour being 2 clock ticks
DefaultEscalationConfig == [FlagThreshold |-> 3, Window |-> 2]

\* the flags reviewers work on: with an identifier and without one, without
\* a timestamp and with one
FlagInputs ==
    {[ID |-> "f1", ContentID |-> "c1", FlaggedBy |-> "u1",
      Category |-> CategoryIllegal, Evidence |-> "", Timestamp |-> 0],
     [ID |-> "", ContentID |-> "c2", FlaggedBy |-> "u2",
      Category |-> CategoryCopyright, Evidence |-> "e", Timestamp |-> 1]}

\* a Timestamp field far in the past
LongAgo == 0 - MaxTime - 2

\* the flags of a burst of reports: on one content without a timestamp and
\* with an old one, and on another content
BurstInputs ==
    {[ID |-> "", ContentID |-> "c1", FlaggedBy |-> "u1",
      Category |-> CategoryAbuse, Evidence |-> "", Timestamp |-> 0],
     [ID |-> "", ContentID |-> "c1", FlaggedBy |-> "u2",
      Category |-> CategoryAbuse, Evidence |-> "", Timestamp |-> LongAgo],
     [ID |-> "flag-2", ContentID |-> "c2", FlaggedBy |-> "u1",
      Category |-> CategoryCopyright, Evidence |-> "", Timestamp |-> 0]}

\* the identifiers Review and Escalate are called with
FlagIDs == {"f1", "flag-1", "flag-2", "nope"}

\* the identifiers whose reviews the log's callers watch
LoggedIDs == {"f1", "nope"}

Reviewers == {"admin-1"}

\* the reasons of direct calls of the registry's Add
DirectReasons == {"dmca"}

\* the records other callers append to the log
RecordInputs ==
    {[ID |-> "a1", FlagID |-> "f1", ContentID |-> "c1", Action |-> ActionDeny,
      ActionBy |-> "admin", Reason |-> "", Timestamp |-> 0]}

\* what a caller writes into a slice it got from GetAll
Scribble ==
    [ID |-> "x", FlagID |-> "x", ContentID |-> "x", Action |-> "x",
     ActionBy |-> "x", Reason |-> "x", Timestamp |-> 0]

NoSlice == [data |-> << >>, shared |-> FALSE]

\* NewMockDenyList, NewMockAuditLog and NewMockModerationQueue(dl, al, cfg)
ModInit ==
    /\ now = 1
    /\ entries = EmptyMap
    /\ flags = EmptyMap
    /\ escalated = {}
    /\ reviewed = EmptyMap
    /\ contentFlags = EmptyMap
    /\ denyList = TRUE
    /\ auditLog = TRUE
    /\ escConfig \in {DefaultEscalationConfig,
                      [FlagThreshold |-> 2, Window |-> 1],
                      [FlagThreshold |-> 1, Window |-> 2]}
    /\ records = << >>
    /\ gotAll = NoSlice
    /\ appended = << >>
    /\ submitLog = << >>
    /\ doneReviews = {}
    /\ lastMut = EmptyMap
    /\ dmca = [notices |-> EmptyMap, counters |-> EmptyMap, court |-> {}]
    /\ reviewRet = [err |-> ErrNil, addErr |-> ErrNil, appendErr |-> ErrNil]
    /\ gotList = [data |-> {}, live |-> FALSE]
    /\ casts = [Broadcasts |-> << >>, SyncedPeers |-> << >>, synced |-> EmptyMap]
    /\ engine = NewEngine(DefaultConfig)
    /\ submitters = [mu |-> 0, th |-> [t \in 1..MaxSubmits |-> [pc |-> "idle"]]]
    /\ calls = [queue    |-> [w |-> 0, r |-> {}],
                registry |-> [w |-> 0, r |-> {}],
                log      |-> [w |-> 0, r |-> {}],
                th       |-> [t \in Threads |->
                                 [pc |-> "idle", call |-> [op |-> "none"]]]]

\* time passes
Tick ==
    /\ now < MaxTime
    /\ now' = now + 1
    /\ UNCHANGED << entries, flags, escalated, reviewed, contentFlags, denyList,
                    auditLog, escConfig, records, gotAll, appended, submitLog,
                    doneReviews, lastMut >>
    /\ UNCHANGED << dmca, reviewRet, gotList, casts, engine, submitters,
                    calls, bloomVars >>

\* MockDenyList.Add called directly
DLAdd(contentID, reason) ==
    /\ entries' = DenyListAdd(entries, contentID, reason, now)
    /\ lastMut' = MapPut(lastMut, contentID, "Add")
    /\ UNCHANGED << now, flags, escalated, reviewed, contentFlags, denyList,
                    auditLog, escConfig, records, gotAll, appended, submitLog,
                    doneReviews >>
    /\ UNCHANGED << dmca, reviewRet, gotList, casts, engine, submitters,
                    calls, bloomVars >>

\* MockDenyList.Remove called directly
DLRemove(contentID) ==
    /\ LET r == DenyListRemove(entries, contentID)
       IN  /\ entries' = r.entries
           /\ lastMut' = IF r.err = ErrNil
                         THEN MapPut(lastMut, contentID, "Remove") ELSE lastMut
    /\ UNCHANGED << now, flags, escalated, reviewed, contentFlags, denyList,
                    auditLog, escConfig, records, gotAll, appended, submitLog,
                    doneReviews >>
    /\ UNCHANGED << dmca, reviewRet, gotList, casts, engine, submitters,
                    calls, bloomVars >>

\* a caller keeps the slice List returns
DLList ==
    /\ gotList' = ListSnapshot
    /\ UNCHANGED << now, entries, flags, escalated, reviewed, contentFlags,
                    denyList, auditLog, escConfig, records, gotAll, appended,
                    submitLog, doneReviews, lastMut >>
    /\ UNCHANGED << dmca, reviewRet, casts, engine, submitters, calls,
                    bloomVars >>

\* MockModerationQueue.Submit
QSubmit(flag) ==
    /\ Len(submitLog) < MaxSubmits
    /\ LET stored == StoredFlag(flag, flags, now)
           recent == WindowAfter(contentFlags, flag, escConfig, now)
           marks  == Crosses(recent, escConfig)
       IN  /\ flags' = MapPut(flags, stored.ID, stored)
           /\ contentFlags' = MapPut(contentFlags, flag.ContentID, recent)
           /\ escalated' = IF marks THEN escalated \cup {stored.ID} ELSE escalated
           /\ submitLog' = Append(submitLog,
                                  [ID |-> stored.ID, ContentID |-> flag.ContentID,
                                   at |-> now, marked |-> marks])
    /\ UNCHANGED << now, entries, reviewed, denyList, auditLog, escConfig,
                    records, gotAll, appended, doneReviews, lastMut >>
    /\ UNCHANGED << dmca, reviewRet, gotList, casts, engine, submitters,
                    calls, bloomVars >>

\* the error of an injected registry or log whose call fails
ErrInjected == "injected failure"

\* Review storing the outcome before it looks the flag up
QReviewWithUnknownStored(flagID, action, reviewedBy, addErr, appendErr) ==
    /\ IF flagID \notin DOMAIN flags
       THEN /\ reviewRet' = [err |-> ErrFlagNotFound, addErr |-> ErrNil,
                             appendErr |-> ErrNil]
            /\ reviewed' = MapPut(reviewed, flagID, action)
            /\ UNCHANGED << entries, records, appended, doneReviews, lastMut >>
       ELSE /\ Len(records) < MaxRecords
            /\ Len(appended) < MaxRecords
            /\ LET flag == flags[flagID]
                   record == ReviewRecord(flagID, flag, action, reviewedBy, now)
                   adds == AddsToDenylist(action, denyList)
                   added1 == adds /\ addErr = ErrNil
                   logged == auditLog /\ appendErr = ErrNil
               IN  /\ reviewed' = MapPut(reviewed, flagID, action)
                   /\ entries' = IF added1
                                 THEN DenyListAdd(entries, flag.ContentID,
                                                  flag.Category, now)
                                 ELSE entries
                   /\ lastMut' = IF added1
                                 THEN MapPut(lastMut, flag.ContentID, "Add")
                                 ELSE lastMut
                   /\ records' = IF logged THEN AuditAppend(records, record)
                                 ELSE records
                   /\ appended' = IF auditLog THEN Append(appended, record)
                                  ELSE appended
                   \* both errors are discarded (_ =) and nil is returned
                   /\ reviewRet' = [err       |-> ErrNil,
                                    addErr    |-> IF adds THEN addErr ELSE ErrNil,
                                    appendErr |-> IF auditLog THEN appendErr
                                                  ELSE ErrNil]
            /\ doneReviews' = doneReviews \cup {flagID}
    /\ UNCHANGED << now, flags, escalated, contentFlags, denyList, auditLog,
                    escConfig, gotAll, submitLog >>
    /\ UNCHANGED << dmca, gotList, casts, engine, submitters, calls,
                    bloomVars >>

\* MockModerationQueue.Review on a queue whose registry's Add returns addErr
\* and whose log's Append returns appendErr; a call that fails stores nothing
QReviewWith(flagID, action, reviewedBy, addErr, appendErr) ==
    /\ IF flagID \notin DOMAIN flags
       THEN /\ reviewRet' = [err |-> ErrFlagNotFound, addErr |-> ErrNil,
                             appendErr |-> ErrNil]
            /\ UNCHANGED << entries, reviewed, records, appended, doneReviews,
                            lastMut >>
       ELSE /\ Len(records) < MaxRecords
            /\ Len(appended) < MaxRecords
            /\ LET flag == flags[flagID]
                   record == ReviewRecord(flagID, flag, action, reviewedBy, now)
                   adds == AddsToDenylist(action, denyList)
                   added1 == adds /\ addErr = ErrNil
                   logged == auditLog /\ appendErr = ErrNil
               IN  /\ reviewed' = MapPut(reviewed, flagID, action)
                   /\ entries' = IF added1
                                 THEN DenyListAdd(entries, flag.ContentID,
                                                  flag.Category, now)
                                 ELSE entries
                   /\ lastMut' = IF added1
                                 THEN MapPut(lastMut, flag.ContentID, "Add")
                                 ELSE lastMut
                   /\ records' = IF logged THEN AuditAppend(records, record)
                                 ELSE records
                   /\ appended' = IF auditLog THEN Append(appended, record)
                                  ELSE appended
                   \* both errors are discarded (_ =) and nil is returned
                   /\ reviewRet' = [err       |-> ErrNil,
                                    addErr    |-> IF adds THEN addErr ELSE ErrNil,
                                    appendErr |-> IF auditLog THEN appendErr
                                                  ELSE ErrNil]
            /\ doneReviews' = doneReviews \cup {flagID}
    /\ UNCHANGED << now, flags, escalated, contentFlags, denyList, auditLog,
                    escConfig, gotAll, submitLog >>
    /\ UNCHANGED << dmca, gotList, casts, engine, submitters, calls,
                    bloomVars >>

\* MockModerationQueue.Review with the registry and the log of mock.go,
\* whose Add and Append always return nil
QReview(flagID, action, reviewedBy) ==
    QReviewWith(flagID, action, reviewedBy, ErrNil, ErrNil)

\* Escalate marking an identifier it does not know
EscalateUnknown(fl, esc, flagID) ==
    [escalated |-> esc \cup {flagID},
     err |-> IF flagID \notin DOMAIN fl THEN ErrFlagNotFound ELSE ErrNil]

\* MockModerationQueue.Escalate: the escalated markers afterwards and the
\* error returned
Escalate(fl, esc, flagID) ==
    IF flagID \notin DOMAIN fl
    THEN [escalated |-> esc, err |-> ErrFlagNotFound]
    ELSE [escalated |-> esc \cup {flagID}, err |-> ErrNil]

\* Escalate recording an outcome for the flag it marks
QEscalateAsOutcome(flagID) ==
    /\ escalated' = Escalate(flags, escalated, flagID).escalated
    /\ reviewed' = IF flagID \in DOMAIN flags
                   THEN MapPut(reviewed, flagID, ActionDismiss) ELSE reviewed
    /\ UNCHANGED << now, entries, flags, contentFlags, denyList,
                    auditLog, escConfig, records, gotAll, appended, submitLog,
                    doneReviews, lastMut >>
    /\ UNCHANGED << dmca, reviewRet, gotList, casts, engine, submitters,
                    calls, bloomVars >>

\* MockModerationQueue.Escalate
QEscalate(flagID) ==
    /\ escalated' = Escalate(flags, escalated, flagID).escalated
    /\ UNCHANGED << now, entries, flags, reviewed, contentFlags, denyList,
                    auditLog, escConfig, records, gotAll, appended, submitLog,
                    doneReviews, lastMut >>
    /\ UNCHANGED << dmca, reviewRet, gotList, casts, engine, submitters,
                    calls, bloomVars >>

\* MockAuditLog.Append called directly
ALAppend(record) ==
    /\ Len(records) < MaxRecords
    /\ records' = AuditAppend(records, record)
    /\ appended' = Append(appended, record)
    /\ UNCHANGED << now, entries, flags, escalated, reviewed, contentFlags,
                    denyList, auditLog, escConfig, gotAll, submitLog,
                    doneReviews, lastMut >>
    /\ UNCHANGED << dmca, reviewRet, gotList, casts, engine, submitters,
                    calls, bloomVars >>

\* a caller keeps the slice GetAll returns
ALGetAll ==
    /\ gotAll' = GetAll
    /\ UNCHANGED << now, entries, flags, escalated, reviewed, contentFlags,
                    denyList, auditLog, escConfig, records, appended, submitLog,
                    doneReviews, lastMut >>
    /\ UNCHANGED << dmca, reviewRet, gotList, casts, engine, submitters,
                    calls, bloomVars >>

\* the caller overwrites element i of the slice it holds; the write reaches
\* m.records only if the slice shares its array
CallerWrite(i) ==
    /\ i \in 1..Len(gotAll.data)
    /\ gotAll' = [gotAll EXCEPT !.data[i] = Scribble]
    /\ records' = IF gotAll.shared /\ i <= Len(records)
                  THEN [records EXCEPT ![i] = Scribble] ELSE records
    /\ UNCHANGED << now, entries, flags, escalated, reviewed, contentFlags,
                    denyList, auditLog, escConfig, appended, submitLog,
                    doneReviews, lastMut >>
    /\ UNCHANGED << dmca, reviewRet, gotList, casts, engine, submitters,
                    calls, bloomVars >>

(***************************************************************************)
(* Submit run by concurrent goroutines, one flag each on the same content. *)
(* A call takes three steps: m.mu.Lock(); the defaults, the store of the   *)
(* flag and the prune loop; the append, the threshold test and the         *)
(* deferred m.mu.Unlock().                                                 *)
(***************************************************************************)
\* the flag of goroutine t: without an identifier, or with one of its own
ConcurrentFlag(t, explicit) ==
    [ID |-> IF explicit THEN "flag-" \o Itoa(t) ELSE "", ContentID |-> "c1",
     FlaggedBy |-> "u" \o Itoa(t), Category |-> CategoryAbuse, Evidence |-> "",
     Timestamp |-> 0]

\* goroutine t calls Submit(flag) and acquires m.mu
SubmitLock(t, flag) ==
    /\ submitters.th[t].pc = "idle"
    /\ submitters.mu = 0
    /\ submitters' = [mu |-> t,
                      th |-> [submitters.th EXCEPT
                                ![t] = [pc |-> "store", flag |-> flag]]]
    /\ UNCHANGED << now, entries, flags, escalated, reviewed, contentFlags,
                    denyList, auditLog, escConfig, records, gotAll, appended,
                    submitLog, doneReviews, lastMut >>
    /\ UNCHANGED << dmca, reviewRet, gotList, casts, engine, calls, bloomVars >>

\* the defaults, m.flags[flag.ID] = flag, now := time.Now() and the prune loop
SubmitStore(t) ==
    /\ submitters.th[t].pc = "store"
    /\ LET stored == StoredFlag(submitters.th[t].flag, flags, now)
       IN  /\ flags' = MapPut(flags, stored.ID, stored)
           /\ submitters' = [submitters EXCEPT
                  !.th[t] = [pc |-> "append", flag |-> stored, now |-> now,
                             recent |-> Recent(TimesOf(contentFlags, stored.ContentID),
                                               now - escConfig.Window)]]
    /\ UNCHANGED << now, entries, escalated, reviewed, contentFlags,
                    denyList, auditLog, escConfig, records, gotAll, appended,
                    submitLog, doneReviews, lastMut >>
    /\ UNCHANGED << dmca, reviewRet, gotList, casts, engine, calls, bloomVars >>

\* recent = append(recent, now), the write of m.contentFlags, the threshold
\* test and the return, which releases m.mu
SubmitAppend(t) ==
    /\ submitters.th[t].pc = "append"
    /\ LET my     == submitters.th[t]
           recent == my.recent \o << my.now >>
           marks  == Crosses(recent, escConfig)
       IN  /\ contentFlags' = MapPut(contentFlags, my.flag.ContentID, recent)
           /\ escalated' = IF marks THEN escalated \cup {my.flag.ID} ELSE escalated
           /\ submitLog' = Append(submitLog,
                                  [ID |-> my.flag.ID, ContentID |-> my.flag.ContentID,
                                   at |-> my.now, marked |-> marks])
           /\ submitters' = [mu |-> IF submitters.mu = t THEN 0 ELSE submitters.mu,
                             th |-> [submitters.th EXCEPT ![t] = [pc |-> "done"]]]
    /\ UNCHANGED << now, entries, flags, reviewed, denyList, auditLog, escConfig,
                    records, gotAll, appended, doneReviews, lastMut >>
    /\ UNCHANGED << dmca, reviewRet, gotList, casts, engine, calls, bloomVars >>

(***************************************************************************)
(* The queue, the registry and the log called by concurrent goroutines,    *)
(* one step per blocking point: the call, each Lock or RLock, and the code *)
(* run under each mutex up to its release.  Review keeps the queue's mutex *)
(* while denyList.Add and auditLog.Append take and release theirs.  The    *)
(* history variables of the sequential specifications are not kept here.   *)
(***************************************************************************)
\* Lock returning although readers hold the mutex
CanLockBesideReaders(mutex, write) == mutex.w = 0

\* whether Lock (write) or RLock returns on a mutex: sync.Mutex has no readers
CanLock(mutex, write) == mutex.w = 0 /\ (write => mutex.r = {})

\* a deferred Unlock that is never run
ReleaseSkipped(mutex, t) == mutex

\* the deferred m.mu.Unlock() or m.mu.RUnlock() of goroutine t
Release(mutex, t) == [w |-> IF mutex.w = t THEN 0 ELSE mutex.w, r |-> mutex.r \ {t}]

\* goroutine t calls a method; c names it and carries its arguments
Call(t, c) ==
    /\ calls.th[t].pc = "idle"
    /\ c.op = "Submit" =>
          Len(TimesOf(contentFlags, c.arg.ContentID))
             + Cardinality({u \in Threads : calls.th[u].call.op = "Submit"})
                < MaxWrites
    /\ c.op \in {"Review", "Append"} =>
          Len(records)
             + Cardinality({u \in Threads :
                               calls.th[u].call.op \in {"Review", "Append"}})
                < MaxWrites
    /\ calls' = [calls EXCEPT
          !.th[t].call = c,
          !.th[t].pc =
              IF c.op \in {"Submit", "Review", "Escalate", "IsEscalated",
                           "GetPending"} THEN "qlock"
              ELSE IF c.op \in {"Add", "Remove", "IsDenied", "List"} THEN "dlock"
              ELSE "alock"]
    /\ UNCHANGED << now, entries, flags, escalated, reviewed, contentFlags,
                    denyList, auditLog, escConfig, records, gotAll, appended,
                    submitLog, doneReviews, lastMut >>
    /\ UNCHANGED << dmca, reviewRet, gotList, casts, engine, submitters,
                    bloomVars >>

\* m.mu.Lock() or m.mu.RLock() returns for goroutine t
Acquire(t) ==
    /\ calls.th[t].pc \in {"qlock", "dlock", "alock"}
    /\ LET me    == calls.th[t]
           lock  == CASE me.pc = "qlock" -> "queue"
                      [] me.pc = "dlock" -> "registry"
                      [] me.pc = "alock" -> "log"
           write == lock # "registry" \/ me.call.op \notin {"IsDenied", "List"}
       IN  /\ CanLock(calls[lock], write)
           /\ calls' = [calls EXCEPT
                 ![lock] = IF write THEN [@ EXCEPT !.w = t]
                           ELSE [@ EXCEPT !.r = @ \cup {t}],
                 !.th[t].pc = CASE me.pc = "qlock" -> "qbody"
                                [] me.pc = "dlock" -> "dbody"
                                [] me.pc = "alock" -> "abody"]
    /\ UNCHANGED << now, entries, flags, escalated, reviewed, contentFlags,
                    denyList, auditLog, escConfig, records, gotAll, appended,
                    submitLog, doneReviews, lastMut >>
    /\ UNCHANGED << dmca, reviewRet, gotList, casts, engine, submitters,
                    bloomVars >>

\* the code of Submit, Review, Escalate, IsEscalated and GetPending under
\* m.mu; all but a Review that goes on to the registry or the log return
QueueBody(t) ==
    /\ calls.th[t].pc = "qbody"
    /\ LET c     == calls.th[t].call
           known == c.op = "Review" /\ c.arg.flagID \in DOMAIN flags
           next  == IF ~known THEN "idle"
                    ELSE IF AddsToDenylist(c.arg.action, denyList) THEN "dlock"
                    ELSE IF auditLog THEN "alock" ELSE "idle"
       IN  /\ flags' = IF c.op = "Submit"
                       THEN LET stored == StoredFlag(c.arg, flags, now)
                            IN  MapPut(flags, stored.ID, stored)
                       ELSE flags
           /\ contentFlags' =
                 IF c.op = "Submit"
                 THEN MapPut(contentFlags, c.arg.ContentID,
                             WindowAfter(contentFlags, c.arg, escConfig, now))
                 ELSE contentFlags
           /\ escalated' =
                 CASE c.op = "Submit" ->
                         IF Crosses(WindowAfter(contentFlags, c.arg, escConfig, now),
                                    escConfig)
                         THEN escalated \cup {StoredFlag(c.arg, flags, now).ID}
                         ELSE escalated
                   [] c.op = "Escalate" -> Escalate(flags, escalated, c.arg).escalated
                   [] OTHER -> escalated
           /\ reviewed' = IF known THEN MapPut(reviewed, c.arg.flagID, c.arg.action)
                          ELSE reviewed
           /\ calls' = IF next = "idle"
                       THEN [calls EXCEPT
                               !.queue = Release(@, t),
                               !.th[t] = [pc |-> "idle", call |-> [op |-> "none"]]]
                       ELSE [calls EXCEPT !.th[t].pc = next]
    /\ UNCHANGED << now, entries, denyList, auditLog, escConfig, records, gotAll,
                    appended, submitLog, doneReviews, lastMut >>
    /\ UNCHANGED << dmca, reviewRet, gotList, casts, engine, submitters,
                    bloomVars >>

\* the code of Add, Remove, IsDenied and List under the registry's mutex;
\* Review runs Add, discards its error and goes on to the log
RegistryBody(t) ==
    /\ calls.th[t].pc = "dbody"
    /\ LET c    == calls.th[t].call
           flag == flags[c.arg.flagID]
           next == IF c.op = "Review" /\ auditLog THEN "alock" ELSE "idle"
       IN  /\ entries' =
                 CASE c.op = "Add" ->
                         DenyListAdd(entries, c.arg.contentID, c.arg.reason, now)
                   [] c.op = "Review" ->
                         DenyListAdd(entries, flag.ContentID, flag.Category, now)
                   [] c.op = "Remove" -> DenyListRemove(entries, c.arg).entries
                   [] OTHER -> entries
           /\ calls' = [calls EXCEPT
                 !.registry = Release(@, t),
                 !.queue = IF c.op = "Review" /\ next = "idle"
                           THEN Release(@, t) ELSE @,
                 !.th[t] = IF next = "idle"
                           THEN [pc |-> "idle", call |-> [op |-> "none"]]
                           ELSE [@ EXCEPT !.pc = next]]
    /\ UNCHANGED << now, flags, escalated, reviewed, contentFlags, denyList,
                    auditLog, escConfig, records, gotAll, appended, submitLog,
                    doneReviews, lastMut >>
    /\ UNCHANGED << dmca, reviewRet, gotList, casts, engine, submitters,
                    bloomVars >>

\* the code of Append, GetByContent, GetByFlag and GetAll under the log's
\* mutex; Review runs Append, discards its error and returns nil, which
\* releases the queue's mutex
LogBody(t) ==
    /\ calls.th[t].pc = "abody"
    /\ LET c == calls.th[t].call
       IN  /\ records' =
                 CASE c.op = "Append" -> AuditAppend(records, c.arg)
                   [] c.op = "Review" ->
                         AuditAppend(records,
                                     ReviewRecord(c.arg.flagID, flags[c.arg.flagID],
                                                  c.arg.action, c.arg.reviewedBy, now))
                   [] OTHER -> records
           /\ calls' = [calls EXCEPT
                 !.log = Release(@, t),
                 !.queue = IF c.op = "Review" THEN Release(@, t) ELSE @,
                 !.th[t] = [pc |-> "idle", call |-> [op |-> "none"]]]
    /\ UNCHANGED << now, entries, flags, escalated, reviewed, contentFlags,
                    denyList, auditLog, escConfig, gotAll, appended, submitLog,
                    doneReviews, lastMut >>
    /\ UNCHANGED << dmca, reviewRet, gotList, casts, engine, submitters,
                    bloomVars >>

(***************************************************************************)
(* The DMCA workflow.  The repository declares the two notice types, the   *)
(* restore period and a test that fills RestoreAfter; the handlers follow  *)
(* the workflow as documented: a notice denies the content at once and is  *)
(* audited, a counter-notice starts the waiting period, and restoration    *)
(* removes the entry once the period has passed without a court action.    *)
(***************************************************************************)
\* DMCARestorePeriod = 10 * 24 * time.Hour, an hour being 2 clock ticks
DMCARestorePeriod == 480

\* RestoreAfter of a counter-notice received at t
RestoreAfterShort(t) == t + DMCARestorePeriod - 1

\* RestoreAfter of a counter-notice received at t
RestoreAfter(t) == t + DMCARestorePeriod

\* the notices received
NoticeInputs ==
    {[ID |-> "n1", ContentID |-> "c1", ClaimantName |-> "claimant-1"],
     [ID |-> "n2", ContentID |-> "c2", ClaimantName |-> "claimant-2"]}

\* the AuditRecord of a DMCA step
DMCARecord(noticeID, contentID, action, by, t) ==
    [ID        |-> "audit-" \o noticeID,
     FlagID    |-> "",
     ContentID |-> contentID,
     Action    |-> action,
     ActionBy  |-> by,
     Reason    |-> "dmca",
     Timestamp |-> t]

\* a DMCANotice is received: the content is denied at once and the takedown
\* is audited
ReceiveNotice(notice) ==
    /\ notice.ID \notin DOMAIN dmca.notices
    /\ Len(records) < MaxRecords
    /\ LET record == DMCARecord(notice.ID, notice.ContentID, ActionDeny,
                                notice.ClaimantName, now)
       IN  /\ entries' = DenyListAdd(entries, notice.ContentID, "dmca", now)
           /\ lastMut' = MapPut(lastMut, notice.ContentID, "Add")
           /\ records' = AuditAppend(records, record)
           /\ appended' = Append(appended, record)
    /\ dmca' = [dmca EXCEPT !.notices =
                   MapPut(@, notice.ID, [ContentID  |-> notice.ContentID,
                                         ReceivedAt |-> now])]
    /\ UNCHANGED << now, flags, escalated, reviewed, contentFlags, denyList,
                    auditLog, escConfig, gotAll, submitLog, doneReviews >>
    /\ UNCHANGED << reviewRet, gotList, casts, engine, submitters, calls,
                    bloomVars >>

\* a DMCACounterNotice referencing a received notice is received: the
\* system sets RestoreAfter
ReceiveCounterNotice(noticeID) ==
    /\ noticeID \in DOMAIN dmca.notices
    /\ noticeID \notin DOMAIN dmca.counters
    /\ dmca' = [dmca EXCEPT !.counters =
                   MapPut(@, noticeID, [NoticeID     |-> noticeID,
                                        ContentID    |-> dmca.notices[noticeID].ContentID,
                                        ReceivedAt   |-> now,
                                        RestoreAfter |-> RestoreAfter(now)])]
    /\ UNCHANGED << now, entries, flags, escalated, reviewed, contentFlags,
                    denyList, auditLog, escConfig, records, gotAll, appended,
                    submitLog, doneReviews, lastMut >>
    /\ UNCHANGED << reviewRet, gotList, casts, engine, submitters, calls,
                    bloomVars >>

\* the claimant files a court action against a counter-notice
CourtAction(noticeID) ==
    /\ noticeID \in DOMAIN dmca.counters
    /\ noticeID \notin dmca.court
    /\ dmca' = [dmca EXCEPT !.court = @ \cup {noticeID}]
    /\ UNCHANGED << now, entries, flags, escalated, reviewed, contentFlags,
                    denyList, auditLog, escConfig, records, gotAll, appended,
                    submitLog, doneReviews, lastMut >>
    /\ UNCHANGED << reviewRet, gotList, casts, engine, submitters, calls,
                    bloomVars >>

\* automatic restoration: once RestoreAfter has passed without a court
\* action the entry is removed and the restoration is audited
Restore(noticeID) ==
    /\ noticeID \in DOMAIN dmca.counters
    /\ noticeID \notin dmca.court
    /\ now >= dmca.counters[noticeID].RestoreAfter
    /\ Len(records) < MaxRecords
    /\ LET contentID == dmca.counters[noticeID].ContentID
           r == DenyListRemove(entries, contentID)
           record == DMCARecord(noticeID, contentID, ActionApprove, "system", now)
       IN  /\ r.err = ErrNil
           /\ entries' = r.entries
           /\ lastMut' = MapPut(lastMut, contentID, "Remove")
           /\ records' = AuditAppend(records, record)
           /\ appended' = Append(appended, record)
    /\ UNCHANGED << now, flags, escalated, reviewed, contentFlags, denyList,
                    auditLog, escConfig, gotAll, submitLog, doneReviews, dmca >>
    /\ UNCHANGED << reviewRet, gotList, casts, engine, submitters, calls,
                    bloomVars >>

\* the waiting period passes, short of one tick or in full
Wait(d) ==
    /\ now <= MaxTime
    /\ now' = now + d
    /\ UNCHANGED << entries, flags, escalated, reviewed, contentFlags, denyList,
                    auditLog, escConfig, records, gotAll, appended, submitLog,
                    doneReviews, lastMut, dmca >>
    /\ UNCHANGED << reviewRet, gotList, casts, engine, submitters, calls,
                    bloomVars >>

\* The DMCA workflow: every operation that reads or writes the notices.
DMCANext ==
    \/ Tick
    \/ \E d \in {DMCARestorePeriod - 1, DMCARestorePeriod} : Wait(d)
    \/ \E notice \in NoticeInputs : ReceiveNotice(notice)
    \/ \E n \in {"n1", "n2"} : ReceiveCounterNotice(n)
    \/ \E n \in {"n1", "n2"} : CourtAction(n)
    \/ \E n \in {"n1", "n2"} : Restore(n)

\* Reviewing: every operation that reads or writes the flags, the review
\* outcomes and the registry entries.
Next ==
    \/ \E c \in ContentIDs, r \in DirectReasons : DLAdd(c, r)
    \/ \E c \in ContentIDs : DLRemove(c)
    \/ \E flag \in FlagInputs : QSubmit(flag)
    \/ \E id \in FlagIDs, a \in ReviewActions, by \in Reviewers : QReview(id, a, by)

\* Escalation: every operation that reads or writes the clock, the windows
\* and the escalated markers.
EscNext ==
    \/ Tick
    \/ \E flag \in BurstInputs : QSubmit(flag)
    \/ \E id \in FlagIDs : QEscalate(id)

\* The audit log and its callers: every operation that reads or writes the
\* records.
LogNext ==
    \/ \E flag \in FlagInputs : QSubmit(flag)
    \/ \E id \in LoggedIDs, a \in ReviewActions, by \in Reviewers : QReview(id, a, by)
    \/ \E record \in RecordInputs : ALAppend(record)
    \/ ALGetAll
    \/ CallerWrite(1)

\* the filter variables while the queue runs
BloomIdle ==
    /\ bloom = [f \in FilterIds |-> NilBloom]
    /\ added = [f \in FilterIds |-> {}]
    /\ wire = << >>
    /\ bret = Ret("", ErrNil, FALSE)
    /\ LocksFree

\* the queue variables while the filters run
ModIdle ==
    /\ now = 1
    /\ entries = EmptyMap
    /\ flags = EmptyMap
    /\ escalated = {}
    /\ reviewed = EmptyMap
    /\ contentFlags = EmptyMap
    /\ denyList = TRUE
    /\ auditLog = TRUE
    /\ escConfig = DefaultEscalationConfig
    /\ records = << >>
    /\ gotAll = NoSlice
    /\ appended = << >>
    /\ submitLog = << >>
    /\ doneReviews = {}
    /\ lastMut = EmptyMap
    /\ dmca = [notices |-> EmptyMap, counters |-> EmptyMap, court |-> {}]
    /\ reviewRet = [err |-> ErrNil, addErr |-> ErrNil, appendErr |-> ErrNil]
    /\ gotList = [data |-> {}, live |-> FALSE]
    /\ casts = [Broadcasts |-> << >>, SyncedPeers |-> << >>, synced |-> EmptyMap]
    /\ engine = NewEngine(DefaultConfig)
    /\ submitters = [mu |-> 0, th |-> [t \in 1..MaxSubmits |-> [pc |-> "idle"]]]
    /\ calls = [queue    |-> [w |-> 0, r |-> {}],
                registry |-> [w |-> 0, r |-> {}],
                log      |-> [w |-> 0, r |-> {}],
                th       |-> [t \in Threads |->
                                 [pc |-> "idle", call |-> [op |-> "none"]]]]

Init == ModInit /\ BloomIdle /\ escConfig = DefaultEscalationConfig

Spec == Init /\ [][Next]_vars

EscInit == ModInit /\ BloomIdle

SpecEsc == EscInit /\ [][EscNext]_vars

SpecLog == Init /\ [][LogNext]_vars

\* Escalation beside reviewing: the operations that write the escalated
\* markers and the one that records review outcomes.
MarkNext ==
    \/ Tick
    \/ \E flag \in BurstInputs : QSubmit(flag)
    \/ \E id \in {"flag-1", "nope"} : QEscalate(id)
    \/ \E id \in {"flag-1", "nope"} : QReview(id, ActionDeny, "admin-1")

SpecMark == EscInit /\ [][MarkNext]_vars

SpecDMCA == Init /\ [][DMCANext]_vars

\* MockSyncBroadcaster.BroadcastDenylist, called by a caller of its own
BroadcastDenylist(seederIDs) ==
    /\ Len(casts.Broadcasts) < MaxCasts
    /\ casts' = [casts EXCEPT !.Broadcasts = Append(@, seederIDs),
                              !.synced = lastMut]
    /\ UNCHANGED << now, entries, flags, escalated, reviewed, contentFlags,
                    denyList, auditLog, escConfig, records, gotAll, appended,
                    submitLog, doneReviews, lastMut >>
    /\ UNCHANGED << dmca, reviewRet, gotList, engine, submitters, calls,
                    bloomVars >>

\* MockSyncBroadcaster.SyncSeeder, called by a caller of its own
SyncSeeder(seederID) ==
    /\ Len(casts.SyncedPeers) < MaxCasts
    /\ casts' = [casts EXCEPT !.SyncedPeers = Append(@, seederID),
                              !.synced = lastMut]
    /\ UNCHANGED << now, entries, flags, escalated, reviewed, contentFlags,
                    denyList, auditLog, escConfig, records, gotAll, appended,
                    submitLog, doneReviews, lastMut >>
    /\ UNCHANGED << dmca, reviewRet, gotList, engine, submitters, calls,
                    bloomVars >>

\* The operations that mutate the registry, and the broadcaster.
CastNext ==
    \/ \E c \in ContentIDs, r \in DirectReasons : DLAdd(c, r)
    \/ \E c \in ContentIDs : DLRemove(c)
    \/ \E flag \in {f \in FlagInputs : f.ID \in LoggedIDs} : QSubmit(flag)
    \/ \E id \in LoggedIDs, a \in ReviewActions, by \in Reviewers : QReview(id, a, by)
    \/ BroadcastDenylist(<< "seeder-1", "seeder-2" >>)
    \/ SyncSeeder("seeder-3")

\* callers of the registry and the queue keep calling; nothing schedules the
\* broadcaster
SpecCast ==
    /\ Init
    /\ [][CastNext]_vars
    /\ WF_vars(\E c \in ContentIDs : DLRemove(c))
    /\ WF_vars(\E id \in LoggedIDs, a \in ReviewActions, by \in Reviewers :
                  QReview(id, a, by))

\* The registry and a caller of List, while time passes.
ProofNext ==
    \/ Tick
    \/ \E g \in 0..2 : EngineNew([ProofGraceMisses |-> g])
    \/ \E n \in NodeIDs, passed \in BOOLEAN : RecordProofResult(n, passed)

SpecProof == Init /\ [][ProofNext]_vars

SubmitNext ==
    \/ Tick
    \/ \E t \in 1..MaxSubmits, explicit \in BOOLEAN :
          SubmitLock(t, ConcurrentFlag(t, explicit))
    \/ \E t \in 1..MaxSubmits : SubmitStore(t)
    \/ \E t \in 1..MaxSubmits : SubmitAppend(t)

SpecSubmit == EscInit /\ [][SubmitNext]_vars

\* Concurrent callers: every method of the queue, the registry and the log.
ConcNext ==
    \/ \E t \in Threads :
          \E c \in {[op |-> "Submit", arg |-> f] : f \in {g \in FlagInputs : g.ID = "f1"}}
                \cup {[op |-> "Review",
                       arg |-> [flagID |-> "f1", action |-> a, reviewedBy |-> by]] :
                         a \in {ActionDeny, ActionApprove}, by \in Reviewers}
                \cup {[op |-> o, arg |-> "f1"] :
                         o \in {"Escalate", "IsEscalated", "GetByFlag"}}
                \cup {[op |-> o, arg |-> "c1"] :
                         o \in {"Remove", "IsDenied", "GetByContent"}}
                \cup {[op |-> o, arg |-> ""] : o \in {"GetPending", "List", "GetAll"}}
                \cup {[op |-> "Add", arg |-> [contentID |-> "c1", reason |-> r]] :
                         r \in DirectReasons}
                \cup {[op |-> "Append", arg |-> r] : r \in RecordInputs} :
             Call(t, c)
    \/ \E t \in Threads : Acquire(t)
    \/ \E t \in Threads : QueueBody(t)
    \/ \E t \in Threads : RegistryBody(t)
    \/ \E t \in Threads : LogBody(t)

\* a goroutine that can run keeps running, and sync.Mutex and sync.RWMutex
\* hand the mutex to a goroutine that keeps waiting for it
SpecConc ==
    /\ Init
    /\ [][ConcNext]_vars
    /\ \A t \in Threads : SF_vars(Acquire(t))
    /\ \A t \in Threads : WF_vars(QueueBody(t) \/ RegistryBody(t) \/ LogBody(t))

ListNext ==
    \/ Tick
    \/ \E c \in ContentIDs, r \in DirectReasons \cup {"court order"} : DLAdd(c, r)
    \/ \E c \in ContentIDs : DLRemove(c)
    \/ DLList

SpecList == Init /\ [][ListNext]_vars

\* Reviewing with a registry and a log that may fail.
FaultNext ==
    \/ \E flag \in FlagInputs : QSubmit(flag)
    \/ \E id \in LoggedIDs, a \in ReviewActions, by \in Reviewers,
          addErr \in {ErrNil, ErrInjected}, appendErr \in {ErrNil, ErrInjected} :
             QReviewWith(id, a, by, addErr, appendErr)

SpecFault == Init /\ [][FaultNext]_vars

\* the filters as NewDenylistBloom returns them
InitBloom ==
    /\ bloom \in [FilterIds ->
                    {NewDenylistBloom(c[1], c[2]) : c \in BloomConfigs}]
    /\ added = [f \in FilterIds |-> {}]
    /\ wire = << >>
    /\ bret = Ret("NewDenylistBloom", ErrNil, FALSE)
    /\ LocksFree
    /\ ModIdle

SpecBloom == InitBloom /\ [][BloomNext]_vars

\* Filters decoded from buffers that did not come from Serialize: the
\* buffer is any element of WireInputs and no filter exists yet.
InitWire ==
    /\ bloom = [f \in FilterIds |-> NilBloom]
    /\ added = [f \in FilterIds |-> {}]
    /\ wire \in WireInputs
    /\ bret = Ret("receive", ErrNil, FALSE)
    /\ LocksFree
    /\ ModIdle

SpecWire == InitWire /\ [][BloomNext]_vars

\* filters constructed and given one key each before the threads start
LockInit ==
    /\ \E cfg \in [FilterIds -> BloomConfigs], ks \in [FilterIds -> Keys] :
          /\ bloom = [f \in FilterIds |->
                         Add(NewDenylistBloom(cfg[f][1], cfg[f][2]), ks[f]).filter]
          /\ added = [f \in FilterIds |-> {ks[f]}]
    /\ wire = << >>
    /\ bret = Ret("Add", ErrNil, FALSE)
    /\ LocksFree
    /\ ModIdle

\* the filters merged by two threads
LockNext ==
    \/ \E t \in Threads, f \in FilterIds, g \in FilterIds : MergeCall(t, f, g)
    \/ \E t \in Threads : MergeLock(t)
    \/ \E t \in Threads : MergeRLock(t)
    \/ \E t \in Threads : MergeFinish(t)

SpecLock == LockInit /\ [][LockNext]_vars

(***************************************************************************)
(* Properties of the filter.                                               *)
(***************************************************************************)
\* C1 - no false negatives: in every state, for every filter, every key
\* whose Add returned on that filter, or on a filter since merged into it,
\* makes MayContain return true.
NoFalseNegatives ==
    \A f \in FilterIds :
        bloom[f] # NilBloom =>
            \A key \in added[f] :
                MayContain(bloom[f], key) = [val |-> TRUE, err |-> ErrNil]

\* a Merge has just combined two filters with keys of their own, and the
\* result still reports some other key as absent
MergedKeysFound ==
    /\ bret.op = "Merge"
    /\ bret.err = ErrNil
    /\ \E f \in FilterIds :
          /\ bloom[f] # NilBloom
          /\ Cardinality(added[f]) >= 2
          /\ \E key \in Keys \ added[f] : ~MayContain(bloom[f], key).val

\* C9 - Serialize followed by Deserialize round-trips exactly: for every
\* filter reached by Add and Merge, Deserialize(Serialize(f)) succeeds and
\* yields the same m, k, count and bit array, hence the same MayContain
\* answer for every key; a transfer between two variables never fails.
RoundTripExact ==
    /\ \A f \in FilterIds :
          bloom[f] # NilBloom =>
              LET r == Deserialize(Serialize(bloom[f]))
              IN  /\ r.err = ErrNil
                  /\ r.filter.numBits = bloom[f].numBits
                  /\ r.filter.numHash = bloom[f].numHash
                  /\ r.filter.count = bloom[f].count
                  /\ r.filter.bits = bloom[f].bits
                  /\ \A key \in Keys :
                        MayContain(r.filter, key) = MayContain(bloom[f], key)
    /\ bret.op = "Transfer" => bret.err = ErrNil

\* a filter holding two keys has just been transferred into the other
\* variable, and the two variables hold equal filters
TransferredCopy ==
    /\ bret.op = "Transfer"
    /\ \E f \in FilterIds, g \in FilterIds :
          /\ f # g
          /\ bloom[f] # NilBloom
          /\ bloom[g] = bloom[f]
          /\ U32Int(bloom[f].count) >= 2
          /\ \E i \in 1..Len(bloom[f].bits) : bloom[f].bits[i] # 0

\* the buffer is shorter than the header, or its length is not 12 + m/8
\* for the m of its first four bytes
BadBuffer(data) ==
    \/ Len(data) < 12
    \/ Len(data) # 12 + U32Div8(Uint32(data, 0))

\* C10 - Deserialize returns ErrInvalidBloomData and no filter whenever the
\* buffer is shorter than 12 bytes or its length differs from 12 + m/8; no
\* failing call returns a filter, and no variable ever holds a filter that
\* came out of such a buffer.
BadBufferRejected ==
    LET r == Deserialize(wire)
    IN  /\ BadBuffer(wire) =>
              r = [filter |-> NilBloom, err |-> ErrInvalidBloomData]
        /\ r.err # ErrNil => r.filter = NilBloom
        /\ BadBuffer(wire) =>
              /\ \A f \in FilterIds : bloom[f] = NilBloom
              /\ bret.op = "Deserialize" => bret.err = ErrInvalidBloomData

\* Deserialize has just refused a buffer that holds a whole header but not
\* the body the header declares
LengthMismatchRefused ==
    /\ bret.op = "Deserialize"
    /\ bret.err = ErrInvalidBloomData
    /\ Len(wire) >= 12
    /\ BadBuffer(wire)

(***************************************************************************)
(* Properties of the queue, the registry and the audit log.                *)
(***************************************************************************)
\* C2 - a successful Review changes the registry only for deny: after
\* Review(id, deny, actor) the flag's content is denied and the entry's
\* reason is the flag's category; after Review(id, approve, actor) and
\* Review(id, dismiss, actor) the entries are exactly what they were.
ReviewDeniesOnlyOnDeny ==
    [][\A id \in FlagIDs, a \in ReviewActions, by \in Reviewers :
          (QReview(id, a, by) /\ id \in DOMAIN flags) =>
              IF a = ActionDeny
              THEN /\ IsDenied(flags[id].ContentID)'
                   /\ entries'[flags[id].ContentID].Reason = flags[id].Category
              ELSE entries' = entries]_vars

\* one flag was denied and its content is in the registry under the flag's
\* category, another was approved or dismissed and its content is not
DeniedAndSpared ==
    \E id \in DOMAIN reviewed, other \in DOMAIN reviewed :
        /\ reviewed[id] = ActionDeny
        /\ IsDenied(flags[id].ContentID)
        /\ entries[flags[id].ContentID].Reason = flags[id].Category
        /\ reviewed[other] \in {ActionApprove, ActionDismiss}
        /\ ~IsDenied(flags[other].ContentID)

\* C3 - GetPending returns exactly the stored flags without a review
\* outcome: the flags whose identifier no successful Review has named; an
\* identifier that was reviewed is never pending again.
PendingAreUnreviewed ==
    /\ GetPending = {flags[id] : id \in DOMAIN flags \ doneReviews}
    /\ DOMAIN reviewed = doneReviews
    /\ \A id \in doneReviews : \A fl \in GetPending : fl.ID # id

\* a reviewed flag is stored and not pending while another flag is pending
ReviewedLeftPending ==
    /\ \E id \in doneReviews : id \in DOMAIN flags /\ flags[id] \notin GetPending
    /\ GetPending # {}
    /\ Len(submitLog) > Cardinality(DOMAIN flags)

\* the submissions for the content of submission i made before it
Earlier(i) ==
    {j \in 1..(i - 1) : submitLog[j].ContentID = submitLog[i].ContentID}

\* the submissions for the content of submission i, itself included, made
\* strictly later than its time minus the window
InWindow(i) ==
    {j \in Earlier(i) \cup {i} :
        submitLog[j].at > submitLog[i].at - escConfig.Window}

RECURSIVE TimesAt(_, _)
TimesAt(js, i) ==
    IF i > Len(submitLog) THEN << >>
    ELSE (IF i \in js THEN << submitLog[i].at >> ELSE << >>) \o TimesAt(js, i + 1)

\* the last submission for content c
LastFor(c) ==
    CHOOSE i \in 1..Len(submitLog) :
        /\ submitLog[i].ContentID = c
        /\ \A j \in (i + 1)..Len(submitLog) : submitLog[j].ContentID # c

\* C5 - flags outside the window do not count: Submit marks the new flag
\* exactly when the submissions for the same content made strictly later
\* than now - Window, the new one included, number at least FlagThreshold;
\* the window kept for a content holds the call times of just those
\* submissions, whatever Timestamp the flags carried.
StaleFlagsNotCounted ==
    /\ \A i \in 1..Len(submitLog) :
          submitLog[i].marked <=>
              Cardinality(InWindow(i)) >= escConfig.FlagThreshold
    /\ \A c \in DOMAIN contentFlags :
          contentFlags[c] = TimesAt(InWindow(LastFor(c)), 1)

\* a flag arrived when the one before it had left the window and was not
\* escalated; the next one, carrying an old Timestamp, was
StaleThenFresh ==
    /\ Len(submitLog) = 3
    /\ Earlier(3) = {1, 2}
    /\ submitLog[1].at <= submitLog[2].at - escConfig.Window
    /\ Cardinality(Earlier(2)) + 1 >= escConfig.FlagThreshold
    /\ ~submitLog[2].marked
    /\ submitLog[3].marked
    /\ flags[submitLog[3].ID].Timestamp = LongAgo
    /\ Len(contentFlags[submitLog[3].ContentID]) = 2

\* C6 - IsDenied is exact: IsDenied(c) is true exactly when the last
\* successful Add or Remove on c, made directly or by Review, was an Add,
\* and false for an identifier never added.
IsDeniedExact ==
    \A c \in ContentIDs :
        IsDenied(c) <=> (c \in DOMAIN lastMut /\ lastMut[c] = "Add")

\* one content was removed after it had been added, another was denied by a
\* review and is still denied
RemovedAndDenied ==
    \E c \in DOMAIN lastMut, id \in DOMAIN reviewed :
        /\ lastMut[c] = "Remove"
        /\ ~IsDenied(c)
        /\ reviewed[id] = ActionDeny
        /\ flags[id].ContentID # c
        /\ IsDenied(flags[id].ContentID)

\* C7 - every successful Review, whatever the action, appends exactly one
\* audit record, carrying the reviewed flag's identifier, the flag's content
\* identifier, the action, the reviewer and the flag's category as reason.
ReviewAppendsOneRecord ==
    [][\A id \in FlagIDs, a \in ReviewActions, by \in Reviewers :
          (QReview(id, a, by) /\ id \in DOMAIN flags) =>
              /\ Len(records') = Len(records) + 1
              /\ SubSeq(records', 1, Len(records)) = records
              /\ LET r == records'[Len(records')]
                 IN  /\ r.FlagID = id
                     /\ r.ContentID = flags[id].ContentID
                     /\ r.Action = a
                     /\ r.ActionBy = by
                     /\ r.Reason = flags[id].Category]_vars

\* two reviews with different actions left one record each, in order
TwoReviewsTwoRecords ==
    /\ Len(records) = 2
    /\ records[1].Action # ActionDeny
    /\ records[2].Action = ActionDeny
    /\ \A i \in 1..2 :
          /\ records[i].FlagID \in DOMAIN flags
          /\ records[i].ActionBy \in Reviewers
          /\ records[i].Reason = flags[records[i].FlagID].Category
          /\ records[i].ContentID = flags[records[i].FlagID].ContentID

\* C8 - the audit log is append-only: GetAll returns exactly the records
\* appended so far, in append order, and what it returns is a prefix of what
\* it returns at any later time, also after a caller has written into a
\* slice GetAll gave out.
AuditLogAppendOnly ==
    /\ [](GetAll.data = appended)
    /\ [][/\ Len(GetAll.data) <= Len(GetAll.data')
          /\ SubSeq(GetAll.data', 1, Len(GetAll.data)) = GetAll.data]_vars

\* a caller has overwritten the first element of the slice it got from
\* GetAll, records were appended since by a review and directly, and the
\* log still holds what was appended
SliceOverwritten ==
    /\ gotAll.data # << >>
    /\ gotAll.data[1] = Scribble
    /\ Len(records) > Len(gotAll.data)
    /\ records[1] # Scribble
    /\ \E i \in 1..Len(records) : records[i] \in RecordInputs
    /\ \E i \in 1..Len(records) : records[i].ActionBy \in Reviewers

\* bytes from + 1 .. from + 4 of data are u as a little-endian unsigned
\* 32-bit integer
LittleEndianAt(data, from, u) ==
    /\ \A i \in 1..4 : data[from + i] \in Byte
    /\ data[from + 1] + 256 * data[from + 2] = u.lo
    /\ data[from + 3] + 256 * data[from + 4] = u.hi

\* C11 - wire format: for every filter, Serialize returns 12 + m/8 bytes,
\* as many as SizeBytes says; bytes 0-3 are m, bytes 4-7 are k and bytes
\* 8-11 are the count, each little-endian, and the rest is the bit array.
WireFormat ==
    \A f \in FilterIds :
        bloom[f] # NilBloom =>
            LET b == bloom[f]
                data == Serialize(b)
            IN  /\ Len(data) = 12 + U32Div8(b.numBits)
                /\ Len(data) = SizeBytes(b)
                /\ LittleEndianAt(data, 0, b.numBits)
                /\ LittleEndianAt(data, 4, b.numHash)
                /\ LittleEndianAt(data, 8, b.count)
                /\ SubSeq(data, 13, Len(data)) = b.bits

\* a filter with bits set and a count that fills the upper bytes of its
\* header field
WideCountFilter ==
    \E f \in FilterIds :
        /\ bloom[f] # NilBloom
        /\ bloom[f].count.hi # 0
        /\ \E i \in 1..Len(bloom[f].bits) : bloom[f].bits[i] # 0

\* C12 - a Merge that does not combine leaves both filters untouched:
\* a.Merge(b) with a.m # b.m or a.k # b.k returns
\* ErrBloomDimensionMismatch, a.Merge(nil) returns no error, and in both
\* cases every filter is exactly what it was before the call.
RefusedMergeChangesNothing ==
    [][\A f \in FilterIds, g \in FilterIds :
          BloomMerge(f, g) =>
              /\ bloom[g] = NilBloom =>
                    /\ bret'.err = ErrNil
                    /\ bloom' = bloom
              /\ (/\ bloom[g] # NilBloom
                  /\ \/ bloom[f].numBits # bloom[g].numBits
                     \/ bloom[f].numHash # bloom[g].numHash) =>
                    /\ bret'.err = ErrBloomDimensionMismatch
                    /\ bloom' = bloom]_vars

\* a Merge between two filters of the same m and different k, each holding
\* a key, has just been refused
MismatchRefused ==
    /\ bret.op = "Merge"
    /\ bret.err = ErrBloomDimensionMismatch
    /\ \A f \in FilterIds : bloom[f] # NilBloom /\ added[f] # {}
    /\ \E f \in FilterIds, g \in FilterIds :
          /\ bloom[f].numBits = bloom[g].numBits
          /\ bloom[f].numHash # bloom[g].numHash

\* bit p of a bit array
BitOn(bits, p) == BitAt(bits[p \div 8 + 1], p % 8) = 1

\* C13 - for two filters a and b of identical m and k, after a.Merge(b)
\* each bit of a is set exactly when it was set in a or in b before, and b
\* is unchanged; merging the other way round gives the same bits, and
\* merging b into a once more changes no bit of a.
MergeIsBitwiseOr ==
    [][\A f \in FilterIds, g \in FilterIds :
          (/\ BloomMerge(f, g)
           /\ bloom[g] # NilBloom
           /\ bloom[f].numBits = bloom[g].numBits
           /\ bloom[f].numHash = bloom[g].numHash) =>
              /\ bret'.err = ErrNil
              /\ Len(bloom'[f].bits) = Len(bloom[f].bits)
              /\ \A p \in 0..(8 * Len(bloom[f].bits) - 1) :
                    BitOn(bloom'[f].bits, p) <=>
                        (BitOn(bloom[f].bits, p) \/ BitOn(bloom[g].bits, p))
              /\ bloom'[g] = bloom[g]
              /\ Merge(bloom[g], bloom[f]).filter.bits = bloom'[f].bits
              /\ Merge(bloom'[f], bloom[g]).filter.bits = bloom'[f].bits]_vars

\* a merge has just folded a populated filter into one that holds further
\* keys, so that the two bit arrays differ afterwards
OverlappingMerged ==
    /\ bret.op = "Merge"
    /\ bret.err = ErrNil
    /\ \E f \in FilterIds, g \in FilterIds :
          /\ f # g
          /\ bloom[f] # NilBloom /\ bloom[g] # NilBloom
          /\ added[g] # {} /\ added[f] # added[g]
          /\ added[g] \subseteq added[f]
          /\ bloom[f].bits # bloom[g].bits
          /\ \E p \in 0..(8 * Len(bloom[g].bits) - 1) : BitOn(bloom[g].bits, p)

\* thread t stands in other.mu.RLock() while thread u holds that mutex for
\* writing
WaitsFor(t, u) ==
    /\ threads[t].pc = "RLock"
    /\ mu[threads[t].arg].w = u

\* C14 - every Merge call returns in every interleaving: no state is
\* reachable in which two threads each hold one filter's lock and wait for
\* the other's, nor one in which a thread running a.Merge(a) waits for the
\* lock it holds itself.
MergeNeverWaitsInCycle ==
    \A t \in Threads, u \in Threads : ~(WaitsFor(t, u) /\ WaitsFor(u, t))

EveryMutationAudited ==
    [][<< flags, escalated, reviewed, entries >>' #
           << flags, escalated, reviewed, entries >> =>
              /\ Len(records') = Len(records) + 1
              /\ SubSeq(records', 1, Len(records)) = records]_vars

\* C18 - errors are never swallowed: when the registry's Add or the log's
\* Append returned an error during a Review, that Review returned an error
\* to its caller.
ReviewReportsFailures ==
    (reviewRet.addErr # ErrNil \/ reviewRet.appendErr # ErrNil) =>
        reviewRet.err # ErrNil

\* C19 - Submit stores the flag as pending: whatever the history of the
\* queue, right after Submit(flag) returns the flag as stored (under its
\* given or assigned identifier, with a non-zero timestamp) is among the
\* flags GetPending returns.
SubmittedIsPending ==
    [][\A flag \in FlagInputs :
          QSubmit(flag) =>
              LET stored == StoredFlag(flag, flags, now)
              IN  /\ stored.ID # ""
                  /\ stored.Timestamp # 0
                  /\ stored \in GetPending']_vars

\* C20 - Review of an unknown flag identifier fails with a not-found error
\* and changes nothing: no review outcome is recorded, the registry is
\* unchanged and no audit record is appended.
UnknownReviewChangesNothing ==
    [][\A id \in FlagIDs, a \in ReviewActions, by \in Reviewers :
          (QReview(id, a, by) /\ id \notin DOMAIN flags) =>
              /\ reviewRet'.err # ErrNil
              /\ reviewRet'.err = ErrFlagNotFound
              /\ reviewed' = reviewed
              /\ entries' = entries
              /\ records' = records
              /\ flags' = flags /\ escalated' = escalated]_vars

\* a Review of an unknown identifier has just failed on a queue that holds
\* a flag, a review outcome, a denied content and an audit record
UnknownReviewRefused ==
    /\ reviewRet.err = ErrFlagNotFound
    /\ flags # EmptyMap
    /\ reviewed # EmptyMap
    /\ entries # EmptyMap
    /\ Len(records) > 0

\* C21 - Escalate(flagID) fails with a not-found error for an unknown
\* identifier and marks nothing; for a known flag it succeeds and sets the
\* escalated marker of that flag only, and a further call (also on a flag
\* Submit escalated by itself) succeeds and leaves the state as it is.
EscalateMarksKnownOnce ==
    [][\A id \in FlagIDs :
          QEscalate(id) =>
              LET r == Escalate(flags, escalated, id)
              IN  /\ id \notin DOMAIN flags =>
                        /\ r.err = ErrFlagNotFound
                        /\ escalated' = escalated
                  /\ id \in DOMAIN flags =>
                        /\ r.err = ErrNil
                        /\ IsEscalated(id)'
                        /\ \A j \in FlagIDs \ {id} :
                              IsEscalated(j)' <=> IsEscalated(j)
                        /\ IsEscalated(id) => escalated' = escalated
                        /\ Escalate(flags', escalated', id) =
                               [escalated |-> escalated', err |-> ErrNil]
                  /\ flags' = flags /\ contentFlags' = contentFlags
                  /\ reviewed' = reviewed /\ entries' = entries
                  /\ records' = records]_vars

\* a flag below the threshold has been escalated by hand next to a flag
\* that Submit escalated, while an unknown identifier is still unmarked
EscalatedByHand ==
    /\ \E i \in 1..Len(submitLog) :
          /\ ~submitLog[i].marked
          /\ IsEscalated(submitLog[i].ID)
    /\ \E i \in 1..Len(submitLog) : submitLog[i].marked
    /\ ~IsEscalated("nope")

\* C22 - Remove(contentID) on an identifier that is not in the registry
\* returns a not-found error and leaves the registry unchanged; on an
\* identifier that is present it deletes exactly that entry, leaves every
\* other entry unchanged, and IsDenied(contentID) is false afterwards.
RemoveDeletesExactlyOne ==
    [][\A c \in ContentIDs :
          DLRemove(c) =>
              LET r == DenyListRemove(entries, c)
              IN  /\ c \notin DOMAIN entries =>
                        /\ r.err = ErrNotInDenylist
                        /\ entries' = entries
                  /\ c \in DOMAIN entries =>
                        /\ r.err = ErrNil
                        /\ ~IsDenied(c)'
                        /\ DOMAIN entries' = DOMAIN entries \ {c}
                        /\ \A d \in DOMAIN entries \ {c} :
                              entries'[d] = entries[d]]_vars

\* one of two denied contents has been removed and the other, added
\* directly, is still in the registry
RemovedOneOfTwo ==
    \E c \in ContentIDs, d \in ContentIDs :
        /\ c # d
        /\ c \in DOMAIN lastMut /\ lastMut[c] = "Remove"
        /\ ~IsDenied(c)
        /\ IsDenied(d)
        /\ entries[d].Reason \in DirectReasons

\* C23 - Add is idempotent on membership and overwrites metadata: Add on an
\* identifier that is already denied succeeds, the registry still holds
\* exactly one entry for it (the length of List is unchanged), that entry
\* carries the new reason, and the entries of all other identifiers are
\* unchanged.
AddOverwritesInPlace ==
    [][\A c \in ContentIDs, reason \in DirectReasons :
          (DLAdd(c, reason) /\ IsDenied(c)) =>
              /\ IsDenied(c)'
              /\ Cardinality(List') = Cardinality(List)
              /\ Cardinality({e \in List' : e.ContentID = c}) = 1
              /\ entries'[c].Reason = reason
              /\ \A d \in DOMAIN entries \ {c} :
                    d \in DOMAIN entries' /\ entries'[d] = entries[d]]_vars

\* a content denied by a review, with the flag's category as reason, has
\* been added again directly and now carries the direct reason, next to
\* another denied content
ReasonOverwritten ==
    \E id \in DOMAIN reviewed :
        /\ reviewed[id] = ActionDeny
        /\ IsDenied(flags[id].ContentID)
        /\ entries[flags[id].ContentID].Reason \in DirectReasons
        /\ flags[id].Category \notin DirectReasons
        /\ Cardinality(List) = 2

\* C24 - List returns a snapshot with exactly one entry per currently
\* denied identifier, and Add and Remove calls made after List returned do
\* not change the contents of the list already returned.
ListIsSnapshot ==
    /\ [](HeldList = gotList.data)
    /\ [][DLList =>
             /\ \A c \in ContentIDs :
                   Cardinality({e \in HeldList' : e.ContentID = c}) =
                       (IF IsDenied(c) THEN 1 ELSE 0)
             /\ \A e \in HeldList' : e = entries[e.ContentID]
             /\ entries' = entries]_vars

\* a caller holds a list of two entries while one of them has since been
\* removed from the registry and the other added again with another reason
StaleListHeld ==
    /\ Cardinality(gotList.data) = 2
    /\ Cardinality(List) = 1
    /\ \A e \in List : e \notin gotList.data

\* out holds exactly the records of the append history whose field equals
\* v, in append order: its k-th element is the k-th matching record
SelectsFromHistory(out, field, v) ==
    LET idx == {i \in 1..Len(appended) : appended[i][field] = v}
    IN  /\ Len(out) = Cardinality(idx)
        /\ \A i \in idx :
              out[Cardinality({j \in idx : j <= i})] = appended[i]

\* C25 - GetByContent(c) and GetByFlag(f) return exactly the records of the
\* full append history whose ContentID equals c, respectively whose FlagID
\* equals f, in append order, none omitted and none added.
QueriesSelectFromHistory ==
    /\ \A c \in ContentIDs \cup {"c9"} :
          SelectsFromHistory(GetByContent(c), "ContentID", c)
    /\ \A f \in FlagIDs \cup {""} :
          SelectsFromHistory(GetByFlag(f), "FlagID", f)

\* the log holds two different records of one flag and the same content,
\* or more, so that the order of a query's result matters
TwoRecordsOneFlag ==
    /\ Len(GetByFlag("f1")) >= 2
    /\ GetByFlag("f1")[1] # GetByFlag("f1")[2]
    /\ GetByContent("c2") = << >>

\* C26 - after any denylist mutation (an Add made by Review(deny) or
\* directly, or a Remove) a call of the Broadcast Coordinator eventually
\* follows: whenever the registry has been mutated since the last call of
\* the broadcaster, the broadcaster is called again.
MutationIsBroadcast ==
    (lastMut # casts.synced) ~> (lastMut = casts.synced)

\* C27 - the reviewed state is terminal: after a flag's first successful
\* Review its recorded outcome never changes and the audit log holds exactly
\* one record referencing that flag, whatever calls follow.
ReviewedIsTerminal ==
    /\ [](\A id \in doneReviews : Len(GetByFlag(id)) = 1)
    /\ [][\A id \in doneReviews :
             id \in DOMAIN reviewed' /\ reviewed'[id] = reviewed[id]]_vars

\* C28 - proof grace of the scoring engine: in every reachable state the
\* missed count of a node is the number of proofs it has failed since its
\* last passed proof (0 right after a passed proof), and the node is
\* half-open exactly when that number exceeds ProofGraceMisses; a node the
\* engine holds no state for has failed none and is not half-open.
HalfOpenIffGraceExceeded ==
    \A n \in NodeIDs :
        IF n \in DOMAIN engine.nodes
        THEN /\ engine.nodes[n].missedProofs = engine.streak[n]
             /\ engine.nodes[n].halfOpen
                    <=> engine.streak[n] > engine.config.ProofGraceMisses
        ELSE engine.streak[n] = 0

\* under the default grace of 2, node-1 is half-open after three failed
\* proofs while node-2, with two, is not
ThirdMissHalfOpens ==
    /\ engine.config = DefaultConfig
    /\ DOMAIN engine.nodes = NodeIDs
    /\ engine.streak["node-1"] = 3
    /\ engine.nodes["node-1"].halfOpen
    /\ engine.streak["node-2"] = 2
    /\ ~engine.nodes["node-2"].halfOpen

\* C29 - the approximate count is additive in an unsigned 32-bit counter:
\* every Add that returns raises the count of its filter by exactly 1, also
\* for a key already present, and 2^32 - 1 is followed by 0; a successful
\* Merge raises the receiver's count by the count the other filter has at
\* that time, modulo 2^32; a refused Merge and a Merge of nil leave it as it
\* was; and no call changes the count of a filter other than its receiver.
CountIsAdditive ==
    [][\A f \in FilterIds :
          LET before == Count(bloom[f])
              after  == Count(bloom'[f])
              others == \A g \in FilterIds \ {f} : bloom'[g] = bloom[g]
              plusOne == IF before = U32Max THEN U32Zero
                         ELSE IF before.lo = Half - 1
                              THEN [lo |-> 0, hi |-> before.hi + 1]
                              ELSE [lo |-> before.lo + 1, hi |-> before.hi]
          IN  /\ \A key \in Keys :
                    BloomAdd(f, key) /\ bret'.err = ErrNil
                        => after = plusOne /\ others
              /\ \A g \in FilterIds :
                    BloomMerge(f, g)
                        => /\ others
                           /\ after = IF bret' = Ret("Merge", ErrNil, FALSE)
                                      THEN U32Add(before, Count(bloom[g]))
                                      ELSE before]_vars

\* a filter decoded with a count of 2^32 - 1 has been given the same key
\* twice: its count has wrapped to 0 and then gone to 1
CountWrappedOnSameKey ==
    /\ Len(wire) >= 12
    /\ Uint32(wire, 8) = U32Max
    /\ bret = Ret("Add", ErrNil, FALSE)
    /\ \E f \in FilterIds :
          /\ bloom[f] # NilBloom
          /\ Cardinality(added[f]) = 1
          /\ Count(bloom[f]) = U32(1)
          /\ \A g \in FilterIds \ {f} : bloom[g] = NilBloom

\* C30 - Submit is atomic with respect to other submissions: once K
\* goroutines have each submitted one flag on the same content, from an
\* empty queue, all within the window and with 1 <= FlagThreshold = N <= K,
\* exactly K - N + 1 flags are escalated, the window of the content holds K
\* entries and K flags are stored.
ConcurrentSubmitsAllCounted ==
    LET K == MaxSubmits
        N == escConfig.FlagThreshold
    IN  (/\ \A t \in 1..K : submitters.th[t].pc = "done"
         /\ 1 <= N /\ N <= K
         /\ \A i \in 1..Len(submitLog) :
               submitLog[i].at > submitLog[Len(submitLog)].at - escConfig.Window)
        => /\ Cardinality(escalated) = K - N + 1
           /\ Len(TimesOf(contentFlags, "c1")) = K
           /\ Cardinality(DOMAIN flags) = K

\* C32 - the filter is insert-only: an Add or a Merge leaves every bit set
\* that was set before, in the receiver and in every other filter, keeps
\* the length of every bit array, and changes m and k of no filter.
FilterIsInsertOnly ==
    [][(\/ \E f \in FilterIds, key \in Keys : BloomAdd(f, key)
        \/ \E f \in FilterIds, g \in FilterIds : BloomMerge(f, g))
       => \A f \in FilterIds :
             bloom[f] # NilBloom =>
                /\ bloom'[f] # NilBloom
                /\ bloom'[f].numBits = bloom[f].numBits
                /\ bloom'[f].numHash = bloom[f].numHash
                /\ Len(bloom'[f].bits) = Len(bloom[f].bits)
                /\ \A p \in 0..(8 * Len(bloom[f].bits) - 1) :
                      BitOn(bloom[f].bits, p) => BitOn(bloom'[f].bits, p)]_vars

\* a filter holds two keys whose positions fall into the same byte: the
\* second Add found bits set in the byte it wrote
SecondKeyAdded ==
    /\ bret = Ret("Add", ErrNil, FALSE)
    /\ \E f \in FilterIds :
          /\ bloom[f] # NilBloom
          /\ Cardinality(added[f]) >= 2
          /\ Len(bloom[f].bits) = 1

\* C33 - a flag is immutable once submitted: no step changes or replaces a
\* stored flag, and the identifier Submit assigns to a flag submitted
\* without one is not the identifier of a flag already stored.
StoredFlagsImmutable ==
    [][/\ \A id \in DOMAIN flags :
             id \in DOMAIN flags' /\ flags'[id] = flags[id]
       /\ \A flag \in BurstInputs :
             (QSubmit(flag) /\ flag.ID = "")
                 => submitLog'[Len(submitLog')].ID \notin DOMAIN flags]_vars

\* C35 - every filter Deserialize returns is well-formed and safe to use:
\* its m is greater than 0 and a multiple of 8, its bit array has m/8 bytes,
\* and no Add or MayContain on it divides by zero or indexes outside the
\* bit array.
DecodedFilterIsSafe ==
    /\ \A f \in FilterIds :
          bloom[f] # NilBloom =>
             /\ bloom[f].numBits # U32Zero
             /\ bloom[f].numBits.lo % 8 = 0
             /\ Len(bloom[f].bits) = U32Div8(bloom[f].numBits)
    /\ bret.err \notin {PanicDivide, PanicIndex}

\* C36 - the queue and the registry agree: a content identifier is denied
\* exactly when some stored flag for that content has deny as its recorded
\* review outcome.
DeniedIffFlagDenied ==
    \A c \in ContentIDs :
        IsDenied(c) <=>
            \E id \in DOMAIN flags :
                /\ flags[id].ContentID = c
                /\ id \in DOMAIN reviewed
                /\ reviewed[id] = ActionDeny

ReviewDenyIsOneStepToReaders ==
    [][\A u \in Threads : \A t \in Threads \ {u} :
          LET rev   == calls.th[u].call
              me    == calls.th[t].call
              flag  == flags[rev.arg.flagID]
              logged == \E i \in DOMAIN GetByFlag(rev.arg.flagID) :
                           GetByFlag(rev.arg.flagID)[i].Action = ActionDeny
          IN  (/\ rev.op = "Review"
               /\ rev.arg.action = ActionDeny
               /\ calls.th[u].pc \in {"alock", "abody"}) =>
                 /\ (/\ RegistryBody(t)
                     /\ me = [op |-> "IsDenied", arg |-> flag.ContentID]
                     /\ IsDenied(flag.ContentID)) => logged
                 /\ (/\ LogBody(t)
                     /\ me = [op |-> "GetByFlag", arg |-> rev.arg.flagID]
                     /\ ~logged) => ~IsDenied(flag.ContentID)]_vars

\* C38 - the queue, the registry and the log never deadlock against each
\* other: a goroutine that holds the registry's or the log's mutex waits for
\* no other mutex, one that waits for the registry or the log while holding
\* a mutex is a Review holding the queue's (registry first, then log), and
\* under fair scheduling every call that has been made returns.
EveryCallReturns ==
    /\ [](\A t \in Threads :
            /\ (calls.registry.w = t \/ t \in calls.registry.r) =>
                  calls.th[t].pc = "dbody"
            /\ calls.log.w = t => calls.th[t].pc = "abody"
            /\ calls.queue.w = t /\ calls.th[t].pc # "qbody" =>
                  /\ calls.th[t].call.op = "Review"
                  /\ calls.th[t].pc \in {"dlock", "dbody", "alock", "abody"})
    /\ \A t \in Threads : (calls.th[t].pc # "idle") ~> (calls.th[t].pc = "idle")

\* a Review that holds the queue's mutex waits for the log's, which another
\* goroutine holds, while nobody holds the registry's
ReviewWaitsForLog ==
    \E t \in Threads, u \in Threads :
       /\ t # u
       /\ calls.th[t].call.op = "Review" /\ calls.th[t].pc = "alock"
       /\ calls.queue.w = t
       /\ calls.log.w = u
       /\ calls.registry = [w |-> 0, r |-> {}]

\* C34 - the escalated marker is orthogonal to review state: a step of
\* Escalate changes nothing but the escalated markers; a step of Submit,
\* whether it auto-escalates or not, changes no recorded review outcome,
\* does not change which of the flags stored before it are pending, and
\* changes neither the denylist nor the audit log; and a step of Review
\* neither sets nor clears the escalated marker of any flag.
EscalationIsOrthogonal ==
    [][/\ (\E id \in FlagIDs : QEscalate(id)) =>
             /\ reviewed' = reviewed
             /\ flags' = flags
             /\ GetPending' = GetPending
             /\ entries' = entries
             /\ records' = records
       /\ (\E flag \in BurstInputs : QSubmit(flag)) =>
             /\ reviewed' = reviewed
             /\ \A id \in DOMAIN flags :
                   (\E f \in GetPending : f.ID = id) <=> (\E f \in GetPending' : f.ID = id)
             /\ entries' = entries
             /\ records' = records
       /\ (\E id \in FlagIDs, a \in ReviewActions, by \in Reviewers :
              QReview(id, a, by)) =>
             escalated' = escalated]_vars

\* an explicit Escalate has marked one flag and a Submit has auto-escalated
\* another; the first was denied afterwards and the second is still pending
EscalatedReviewedAndPending ==
    /\ \E i \in DOMAIN submitLog :
          /\ ~submitLog[i].marked
          /\ submitLog[i].ID \in escalated
          /\ submitLog[i].ID \in DOMAIN reviewed
          /\ submitLog[i].ContentID \in DOMAIN entries
    /\ \E i \in DOMAIN submitLog :
          /\ submitLog[i].marked
          /\ submitLog[i].ID \in escalated
          /\ submitLog[i].ID \notin DOMAIN reviewed
    /\ records # << >>
====
